---- MODULE Spec2Model ----
(***************************************************************************)
(* A model of json-asm: the 24-byte value node, the bump arena, the        *)
(* recursive-descent parser (src/src/parse.c), the serializer              *)
(* (src/src/stringify.c), the query API (src/src/json_asm.c) and the       *)
(* parse_int kernels (src/src/parse.c, src/src/arm64/simd_arm64.c).        *)
(*                                                                         *)
(* Bytes are integers 0..255.  64-bit words are four 16-bit limbs, least   *)
(* significant first, so that the 60-bit payload, its sign extension and   *)
(* the little-endian image of a node are computed as the code computes     *)
(* them.  A double is a signed decimal of at most 17 significant digits:   *)
(* the model is exact for the literals its inputs use (short decimals that *)
(* binary64 represents exactly, and 2^63, 2^64).                           *)
(***************************************************************************)
EXTENDS Integers, Sequences, FiniteSets, TLC

VARIABLES
    input,      \* the caller's buffer (bytes); it may extend beyond len
    len,        \* the len argument of json_parse_opts
    opts,       \* json_parse_options: [flags, max_depth]
    pos,        \* parser_ctx.pos
    line,       \* parser_ctx.line
    col,        \* parser_ctx.col
    depth,      \* parser_ctx.depth
    doc,        \* the struct json_doc being built (NoDoc before arena_create)
    stack,      \* the active parse_array / parse_object activations
    pc,         \* control point of the calling thread
    ret,        \* value returned by the last parse_* call
    err,        \* g_last_error of the calling thread
    result,     \* what json_parse_opts returned: "none", "doc" or "null"
    freed,      \* number of arena_destroy calls on the document of this parse
    span,       \* [from, to): the input bytes of the value returned last
    members,    \* the object members parsed so far: [obj, key, bytes, value]
    round,      \* 1: parse(I), 2: parse(stringify(parse(I)))
    docs,       \* documents returned by the earlier parses of the chain
    outs,       \* strings returned by json_stringify, in order
    prior,      \* the outcome of an earlier call on the same len bytes, <<>> if none
    mayfail,    \* whether the allocator may run out of memory
    oomed,      \* whether an allocation of this parse has returned NULL
    kin,        \* the byte slice handed to a parse_int kernel
    kout,       \* variant -> [value, consumed] returned for kin
    build,      \* how the library was compiled and what the processor reports
    g_initialized,   \* json_asm.c: bool g_initialized
    g_cpu_features,  \* json_asm.c: uint32_t g_cpu_features, as the set of its bits
    g_json_ops,      \* json_asm.c: struct json_ops g_json_ops
    threads,    \* the other threads: control point, pending stores, error record
    got         \* what the caller's last query of a value returned, <<>> if none

vars == <<input, len, opts, pos, line, col, depth, doc, stack, pc, ret, err,
          result, freed, span, members, round, docs, outs, prior, mayfail, oomed,
          kin, kout, build, g_initialized, g_cpu_features, g_json_ops, threads, got>>

\* The library's globals and the other threads.
LibVars == <<build, g_initialized, g_cpu_features, g_json_ops, threads>>

(***************************************************************************)
(* C character literals ('[' is 91, ...).                                  *)
(***************************************************************************)
Ch ==
    ("\t" :> 9) @@ ("\n" :> 10) @@ ("\f" :> 12) @@ ("\r" :> 13) @@
    (" " :> 32) @@ ("\"" :> 34) @@ ("+" :> 43) @@ ("," :> 44) @@ ("-" :> 45) @@
    ("." :> 46) @@ ("/" :> 47) @@
    ("0" :> 48) @@ ("1" :> 49) @@ ("2" :> 50) @@ ("3" :> 51) @@ ("4" :> 52) @@
    ("5" :> 53) @@ ("6" :> 54) @@ ("7" :> 55) @@ ("8" :> 56) @@ ("9" :> 57) @@
    (":" :> 58) @@ (";" :> 59) @@ ("A" :> 65) @@ ("D" :> 68) @@ ("E" :> 69) @@
    ("F" :> 70) @@
    ("I" :> 73) @@ ("N" :> 78) @@
    ("[" :> 91) @@ ("\\" :> 92) @@ ("]" :> 93) @@
    ("a" :> 97) @@ ("b" :> 98) @@ ("c" :> 99) @@ ("d" :> 100) @@ ("e" :> 101) @@
    ("f" :> 102) @@ ("g" :> 103) @@ ("h" :> 104) @@ ("i" :> 105) @@ ("j" :> 106) @@
    ("k" :> 107) @@ ("l" :> 108) @@ ("n" :> 110) @@ ("r" :> 114) @@ ("s" :> 115) @@
    ("t" :> 116) @@ ("u" :> 117) @@ ("v" :> 118) @@ ("x" :> 120) @@ ("y" :> 121) @@
    ("{" :> 123) @@ ("|" :> 124) @@ ("}" :> 125)

\* A C string literal, written as the sequence of its characters.
Lit(cs) == [i \in 1..Len(cs) |-> Ch[cs[i]]]

IsDigit(c) == c >= Ch["0"] /\ c <= Ch["9"]

Min(a, b) == IF a < b THEN a ELSE b
Max(a, b) == IF a > b THEN a ELSE b

RECURSIVE Flatten(_)
Flatten(ss) == IF ss = <<>> THEN <<>> ELSE Head(ss) \o Flatten(Tail(ss))

Zeros(n) == [k \in 1..n |-> 0]

\* The byte at C index i (0-based) of a buffer.  The callers of the library pass
\* C strings (the tests pass literals and strlen), so the byte that follows the
\* buffer is the terminating NUL.
At(buf, i) == IF i >= 0 /\ i < Len(buf) THEN buf[i + 1] ELSE 0

\* A local variable of the code: F applied to the value assigned to it.
Let(e, F(_)) == F(e)

(***************************************************************************)
(* 64-bit words: <<l0, l1, l2, l3>>, value l0 + 2^16 l1 + 2^32 l2 + 2^48 l3*)
(***************************************************************************)
Limb == 256 * 256

W64(n) == <<n % Limb, (n \div Limb) % Limb, 0, 0>>
WZero == <<0, 0, 0, 0>>

\* x * m + a for small m, a: the low 64 bits and the carry out of bit 63.
WMulAdd(x, m, a) ==
    LET t0 == x[1] * m + a
        t1 == x[2] * m + (t0 \div Limb)
        t2 == x[3] * m + (t1 \div Limb)
        t3 == x[4] * m + (t2 \div Limb)
    IN [w |-> <<t0 % Limb, t1 % Limb, t2 % Limb, t3 % Limb>>, carry |-> t3 \div Limb]

\* Unsigned comparison: -1, 0, 1.
WCmp(x, y) ==
    IF x[4] # y[4] THEN (IF x[4] < y[4] THEN -1 ELSE 1)
    ELSE IF x[3] # y[3] THEN (IF x[3] < y[3] THEN -1 ELSE 1)
    ELSE IF x[2] # y[2] THEN (IF x[2] < y[2] THEN -1 ELSE 1)
    ELSE IF x[1] # y[1] THEN (IF x[1] < y[1] THEN -1 ELSE 1)
    ELSE 0

\* Two's complement negation, modulo 2^64.
WNeg(x) ==
    LET n == <<Limb - 1 - x[1], Limb - 1 - x[2], Limb - 1 - x[3], Limb - 1 - x[4]>>
    IN WMulAdd(n, 1, 1).w

WIsNeg(x) == x[4] >= 32768

\* x << 4 and x >> 4 (logical), modulo 2^64.
WShl4(x) == WMulAdd(x, 16, 0).w
WShr4(x) ==
    <<(x[1] \div 16) + (x[2] % 16) * 4096, (x[2] \div 16) + (x[3] % 16) * 4096,
      (x[3] \div 16) + (x[4] % 16) * 4096, x[4] \div 16>>

\* The eight bytes of a word in memory (little-endian).
WBytes(x) ==
    <<x[1] % 256, x[1] \div 256, x[2] % 256, x[2] \div 256,
      x[3] % 256, x[3] \div 256, x[4] % 256, x[4] \div 256>>
WFromBytes(b) ==
    <<b[1] + 256 * b[2], b[3] + 256 * b[4], b[5] + 256 * b[6], b[7] + 256 * b[8]>>

\* A word known to be small, as a number (string lengths).
WSmall(x) == x[1] + Limb * (x[2] % 16384)

INT64_MAX_W == <<65535, 65535, 65535, 32767>>
INT64_MIN_W == <<0, 0, 0, 32768>>

\* x divided by 10^4: quotient and remainder.
WDivMod(x) ==
    LET c4 == x[4]
        c3 == (c4 % 10000) * Limb + x[3]
        c2 == (c3 % 10000) * Limb + x[2]
        c1 == (c2 % 10000) * Limb + x[1]
    IN [q |-> <<c1 \div 10000, c2 \div 10000, c3 \div 10000, c4 \div 10000>>,
        r |-> c1 % 10000]

\* The decimal digits (as characters) of n < 10^4: all four, or without the
\* leading zeros.
Digits4(n) ==
    <<Ch["0"] + (n \div 1000), Ch["0"] + ((n \div 100) % 10), Ch["0"] + ((n \div 10) % 10),
      Ch["0"] + (n % 10)>>

DigitsUpTo4(n) ==
    SubSeq(Digits4(n), IF n >= 1000 THEN 1 ELSE IF n >= 100 THEN 2 ELSE IF n >= 10 THEN 3 ELSE 4,
           4)

\* The decimal digits (as characters) of an unsigned word, four at a time.
RECURSIVE WDigits(_)
WDigits(x) ==
    LET d == WDivMod(x)
    IN IF d.q = WZero THEN DigitsUpTo4(d.r) ELSE WDigits(d.q) \o Digits4(d.r)

\* snprintf("%lld") of a signed 64-bit value.
FormatLL(x) ==
    IF WIsNeg(x) THEN <<Ch["-"]>> \o WDigits(WNeg(x)) ELSE WDigits(x)

(***************************************************************************)
(* The C library: strtoll, strtod, snprintf("%.17g").  These read the raw  *)
(* buffer from `start` up to the first byte that cannot continue the       *)
(* number; they know nothing of the parser's len.                          *)
(***************************************************************************)
\* The number of digits from C index i on, up to the first byte that is none.
DigitRun(buf, i) ==
    CHOOSE n \in 0..Max(Len(buf) - i, 0) :
        /\ \A k \in 0..(n - 1) : IsDigit(At(buf, i + k))
        /\ ~IsDigit(At(buf, i + n))

\* The digit values of the n bytes from C index i.
DigitsAt(buf, i, n) == [k \in 1..n |-> At(buf, i + k - 1) - Ch["0"]]

\* The value of the digits ds[i..], accumulated on acc four digits at a time:
\* [w, ovf], ovf telling whether it passed 2^64.
RECURSIVE AccDec(_, _, _)
AccDec(ds, i, acc) ==
    IF i > Len(ds) THEN acc
    ELSE LET n == Min(4, Len(ds) - i + 1)
             chunk == IF n = 4 THEN ((ds[i] * 10 + ds[i + 1]) * 10 + ds[i + 2]) * 10 + ds[i + 3]
                      ELSE IF n = 3 THEN (ds[i] * 10 + ds[i + 1]) * 10 + ds[i + 2]
                      ELSE IF n = 2 THEN ds[i] * 10 + ds[i + 1]
                      ELSE ds[i]
             r == WMulAdd(acc.w, IF n = 4 THEN 10000 ELSE IF n = 3 THEN 1000
                                 ELSE IF n = 2 THEN 100 ELSE 10, chunk)
         IN IF r.carry > 0 \/ acc.ovf
            THEN AccDec(ds, i + n, [w |-> r.w, ovf |-> TRUE])
            ELSE AccDec(ds, i + n, [w |-> r.w, ovf |-> FALSE])

\* strtoll(start, &end, 10): errno = ERANGE and LLONG_MAX / LLONG_MIN when the
\* digits do not fit a signed 64-bit integer.
strtoll(buf, start) ==
    LET neg == At(buf, start) = Ch["-"]
        s == IF neg THEN start + 1 ELSE start
        n == DigitRun(buf, s)
        m == AccDec(DigitsAt(buf, s, n), 1, [w |-> WZero, ovf |-> FALSE])
        limit == IF neg THEN INT64_MIN_W ELSE INT64_MAX_W
        erange == m.ovf \/ WCmp(m.w, limit) > 0
    IN [erange |-> erange,
        val |-> IF erange THEN limit ELSE IF neg THEN WNeg(m.w) ELSE m.w,
        end |-> s + n]

\* A double: (-1)^neg * digs * 10^exp, digs without leading or trailing zeros
\* and of at most SigDigits digits; zero is the empty digit string.
SigDigits == 17

\* ds without its leading zeros.
StripLead(ds) ==
    LET z == CHOOSE n \in 0..Len(ds) :
                 (\A k \in 1..n : ds[k] = 0) /\ (n < Len(ds) => ds[n + 1] # 0)
    IN SubSeq(ds, z + 1, Len(ds))

\* ds * 10^e without the trailing zeros of ds.
StripTrail(ds, e) ==
    LET z == CHOOSE n \in 0..Len(ds) :
                 /\ \A k \in 1..n : ds[Len(ds) + 1 - k] = 0
                 /\ n < Len(ds) => ds[Len(ds) - n] # 0
    IN IF z = Len(ds) THEN [digs |-> <<>>, exp |-> 0]
       ELSE [digs |-> SubSeq(ds, 1, Len(ds) - z), exp |-> e + z]

RECURSIVE IncDigits(_)
IncDigits(ds) ==
    IF ds = <<>> THEN <<1>>
    ELSE IF ds[Len(ds)] < 9 THEN [ds EXCEPT ![Len(ds)] = @ + 1]
    ELSE IncDigits(SubSeq(ds, 1, Len(ds) - 1)) \o <<0>>

\* Round a digit string (no leading zeros) to SigDigits digits, ties to even.
RoundSig(ds, e) ==
    IF Len(ds) <= SigDigits THEN StripTrail(ds, e)
    ELSE LET keep == SubSeq(ds, 1, SigDigits)
             rest == SubSeq(ds, SigDigits + 1, Len(ds))
             more == \E k \in 2..Len(rest) : rest[k] # 0
             up == rest[1] > 5 \/ (rest[1] = 5 /\ (more \/ keep[SigDigits] % 2 = 1))
         IN StripTrail(IF up THEN IncDigits(keep) ELSE keep, e + Len(rest))

RECURSIVE SmallDec(_, _)
SmallDec(ds, acc) ==
    IF ds = <<>> \/ acc > 99999 THEN acc ELSE SmallDec(Tail(ds), acc * 10 + Head(ds))

\* strtod(start, &end): the longest decimal floating literal at start.  ERANGE
\* is reported beyond the decimal exponent range of binary64 (the model does not
\* place the boundary inside the decades 10^308 and 10^-308).
strtod(buf, start) ==
    Let(At(buf, start) = Ch["-"], LAMBDA neg :
    Let(IF neg THEN start + 1 ELSE start, LAMBDA s :
    Let(DigitRun(buf, s), LAMBDA ni :
    Let(IF At(buf, s + ni) = Ch["."] THEN DigitRun(buf, s + ni + 1) ELSE 0, LAMBDA nf :
    Let(s + ni + (IF At(buf, s + ni) = Ch["."] THEN 1 + nf ELSE 0), LAMBDA p :
    Let(IF At(buf, p) \in {Ch["e"], Ch["E"]}
        THEN p + 1 + (IF At(buf, p + 1) \in {Ch["+"], Ch["-"]} THEN 1 ELSE 0)
        ELSE p, LAMBDA q :
    Let(IF q > p THEN DigitRun(buf, q) ELSE 0, LAMBDA ne :
    Let(IF At(buf, p + 1) = Ch["-"] THEN 0 - SmallDec(DigitsAt(buf, q, ne), 0)
        ELSE SmallDec(DigitsAt(buf, q, ne), 0), LAMBDA e :
    Let(RoundSig(StripLead(DigitsAt(buf, s, ni) \o DigitsAt(buf, s + ni + 1, nf)), e - nf),
        LAMBDA r :
    Let(Len(r.digs) - 1 + r.exp, LAMBDA sci :
        [erange |-> r.digs # <<>> /\ (sci > 308 \/ sci < 0 - 308),
         val |-> [neg |-> neg, digs |-> r.digs, exp |-> r.exp],
         end |-> IF ne > 0 THEN q + ne ELSE p]))))))))))

FZero == [neg |-> FALSE, digs |-> <<>>, exp |-> 0]

\* d == e on doubles: -0.0 equals 0.0.
FloatEq(a, b) == (a.digs = <<>> /\ b.digs = <<>>) \/ a = b

DigitChars(ds) == [k \in 1..Len(ds) |-> Ch["0"] + ds[k]]

RECURSIVE NatChars(_)
NatChars(n) ==
    IF n < 10 THEN <<Ch["0"] + n>> ELSE NatChars(n \div 10) \o <<Ch["0"] + (n % 10)>>

\* snprintf("%.17g", d) for a finite d.
FormatG17(f) ==
    LET sign == IF f.neg THEN <<Ch["-"]>> ELSE <<>>
        n == Len(f.digs)
        x == n - 1 + f.exp
        cs == DigitChars(f.digs)
        ax == IF x < 0 THEN 0 - x ELSE x
    IN IF n = 0 THEN sign \o <<Ch["0"]>>
       ELSE IF x < 0 - 4 \/ x >= SigDigits
            THEN sign \o <<cs[1]>>
                 \o (IF n > 1 THEN <<Ch["."]>> \o SubSeq(cs, 2, n) ELSE <<>>)
                 \o <<Ch["e"], IF x < 0 THEN Ch["-"] ELSE Ch["+"]>>
                 \o (IF ax < 10 THEN <<Ch["0"]>> ELSE <<>>) \o NatChars(ax)
       ELSE IF f.exp >= 0 THEN sign \o cs \o [k \in 1..f.exp |-> Ch["0"]]
       ELSE IF x >= 0
            THEN sign \o SubSeq(cs, 1, x + 1) \o <<Ch["."]>> \o SubSeq(cs, x + 2, n)
       ELSE sign \o <<Ch["0"], Ch["."]>> \o [k \in 1..(0 - x - 1) |-> Ch["0"]] \o cs

(***************************************************************************)
(* Program constants.                                                      *)
(***************************************************************************)
JSON_NULL == 0
JSON_FALSE == 1
JSON_TRUE == 3
JSON_INT == 4
JSON_FLOAT == 5
JSON_STRING == 6
JSON_STRING_SHORT == 6
JSON_STRING_LONG == 7
JSON_ARRAY == 8
JSON_OBJECT == 9
JSON_SHORT_STR_MAX == 7

JSON_OK == 0
JSON_ERROR_MEMORY == 1
JSON_ERROR_SYNTAX == 2
JSON_ERROR_DEPTH == 3
JSON_ERROR_NUMBER == 4
JSON_ERROR_STRING == 5

JSON_PARSE_DEFAULT == 0
JSON_PARSE_ALLOW_TRAILING == 2
JSON_PARSE_ALLOW_INF_NAN == 4

SizeofVal == 24
ARENA_INITIAL_SIZE == 64 * 1024
ARENA_GROWTH_FACTOR == 2
STRING_INITIAL_SIZE == 16 * 1024
ARENA_ALIGNMENT == 64

(***************************************************************************)
(* Memory.  A node pointer names the allocation it points into (gen) and   *)
(* the node's index there; an allocation that has been freed keeps its gen,*)
(* so a pointer into it is recognisably dangling.  Word 2 of a node is a   *)
(* union: `k` records which member was stored last.                        *)
(***************************************************************************)
NULL == [gen |-> 0, idx |-> 0]
Ptr(g, i) == [gen |-> g, idx |-> i]

W2Null == [k |-> "null", p |-> NULL, f |-> FZero]
W2Child(p) == [k |-> "child", p |-> p, f |-> FZero]
W2Str(g, off) == [k |-> "str", p |-> Ptr(g, off), f |-> FZero]
W2Float(f) == [k |-> "float", p |-> NULL, f |-> f]

\* memset(val, 0, sizeof(*val))
ZeroVal == [tag_payload |-> WZero, next |-> NULL, w2 |-> W2Null]

NoDoc ==
    [id |-> 0, arena |-> <<>>, agen |-> 0, arena_size |-> 0, arena_used |-> 0,
     strings |-> <<>>, sgen |-> 0, strings_size |-> 0, strings_used |-> 0,
     root |-> NULL, value_count |-> 0]

align_up(size, align) == ((size + align - 1) \div align) * align

\* arena_create: NULL (NoDoc) when one of its three allocations fails.  id
\* stands for the address calloc returns: distinct for distinct documents.
arena_create(initial_size, id, fail) ==
    LET size == align_up(IF initial_size = 0 THEN ARENA_INITIAL_SIZE ELSE initial_size,
                         ARENA_ALIGNMENT)
    IN IF fail THEN NoDoc
       ELSE [id |-> id, arena |-> <<>>, agen |-> 1, arena_size |-> size,
             arena_used |-> 0,
             strings |-> <<>>, sgen |-> 1, strings_size |-> STRING_INITIAL_SIZE,
             strings_used |-> 0, root |-> NULL, value_count |-> 0]

\* The capacity doubled once, whatever is wanted.
GrowOnce(size, want) == size

RECURSIVE GrowTo(_, _)
GrowTo(size, want) ==
    IF size < want THEN GrowTo(size * ARENA_GROWTH_FACTOR, want) ELSE size

\* arena_grow: a new block, the used bytes copied, the old block freed.  The
\* copied nodes keep the pointers they held: those name the old block.
arena_grow(d, needed, fail) ==
    LET new_size == align_up(GrowTo(d.arena_size * ARENA_GROWTH_FACTOR,
                                    d.arena_used + needed), ARENA_ALIGNMENT)
    IN IF fail THEN [ok |-> FALSE, d |-> d]
       ELSE [ok |-> TRUE, d |-> [d EXCEPT !.agen = @ + 1, !.arena_size = new_size]]

\* strings_grow: realloc, which extends the block in place or moves it.
strings_grow(d, needed, fail, moved) ==
    LET new_size == GrowTo(d.strings_size * ARENA_GROWTH_FACTOR, d.strings_used + needed)
    IN IF fail THEN [ok |-> FALSE, d |-> d]
       ELSE [ok |-> TRUE,
             d |-> [d EXCEPT !.sgen = IF moved THEN @ + 1 ELSE @,
                             !.strings_size = new_size]]

\* arena_alloc_val: [d, val]; val = NULL when growing failed.
arena_alloc_val(d, fail) ==
    LET needed == SizeofVal
        g == IF d.arena_used + needed > d.arena_size
             THEN arena_grow(d, needed, fail) ELSE [ok |-> TRUE, d |-> d]
    IN IF ~g.ok THEN [d |-> d, val |-> NULL]
       ELSE [d |-> [g.d EXCEPT !.arena = Append(@, ZeroVal),
                               !.arena_used = @ + needed,
                               !.value_count = @ + 1],
             val |-> Ptr(g.d.agen, (g.d.arena_used \div SizeofVal) + 1)]

\* arena_alloc_string followed by the caller's writes of len bytes and the NUL:
\* [ok, d, str], str being the offset of the string in the region.
arena_alloc_string(d, bytes, fail, moved) ==
    LET needed == Len(bytes) + 1
        g == IF d.strings_used + needed > d.strings_size
             THEN strings_grow(d, needed, fail, moved) ELSE [ok |-> TRUE, d |-> d]
    IN IF ~g.ok THEN [ok |-> FALSE, d |-> d, str |-> W2Null]
       ELSE [ok |-> TRUE,
             d |-> [g.d EXCEPT !.strings = @ \o bytes \o <<0>>,
                               !.strings_used = @ + needed],
             str |-> W2Str(g.d.sgen, g.d.strings_used)]

\* Whether p points at a node of d's current arena block.
Live(d, p) == p.gen = d.agen /\ p.idx >= 1 /\ p.idx <= Len(d.arena)

\* *p, for a live p.
Val(d, p) == d.arena[p.idx]

\* A store through p.  A store through a dangling pointer lands in the freed
\* block and leaves the document's arena as it was.
Store(d, p, v) == IF Live(d, p) THEN [d EXCEPT !.arena[p.idx] = v] ELSE d

(***************************************************************************)
(* Type tag helpers (internal.h).                                          *)
(***************************************************************************)
val_get_type(v) == v.tag_payload[1] % 16

val_set_type(v, t) ==
    [v EXCEPT !.tag_payload[1] = (@ \div 16) * 16 + t]

val_get_payload(v) == WShr4(v.tag_payload)

val_set_payload(v, p) ==
    [v EXCEPT !.tag_payload =
        LET s == WShl4(p) IN [s EXCEPT ![1] = @ + (v.tag_payload[1] % 16)]]

val_short_str_len(v) == (v.tag_payload[1] \div 16) % 8

(***************************************************************************)
(* Parser (parse.c).  c is the position part of parser_ctx: [pos, line,    *)
(* col].  A parse_* operator returns [val, c, d, e, oom]: the node pointer *)
(* it returns (NULL on failure), the context and document it leaves, e =   *)
(* <<record>> when it called set_error (<<>> otherwise), and whether an    *)
(* allocation failed.  The buffer is a C string: the byte after its last   *)
(* is NUL.                                                                 *)
(***************************************************************************)
set_error(code, p, l, cl, msg) ==
    [code |-> code, position |-> p, line |-> l, column |-> cl, message |-> msg]

NoError == set_error(JSON_OK, 0, 0, 0, "")

Ctx(p, l, cl) == [pos |-> p, line |-> l, col |-> cl]

Fail(c, d, code, msg) ==
    [val |-> NULL, c |-> c, d |-> d,
     e |-> <<set_error(code, c.pos, c.line, c.col, msg)>>, oom |-> FALSE]

FailOom(c, d) == [val |-> NULL, c |-> c, d |-> d, e |-> <<>>, oom |-> TRUE]

Done(c, d, v) == [val |-> v, c |-> c, d |-> d, e |-> <<>>, oom |-> FALSE]

\* The four whitespace bytes of skip_ws.
IsWs(b) == b = Ch[" "] \/ b = Ch["\t"] \/ b = Ch["\r"] \/ b = Ch["\n"]

\* skip_ws counting a newline as any other whitespace byte.
RECURSIVE skip_ws_flat(_)
skip_ws_flat(c) ==
    IF c.pos < len /\ IsWs(At(input, c.pos))
    THEN skip_ws_flat(Ctx(c.pos + 1, c.line, c.col + 1))
    ELSE c

RECURSIVE skip_ws(_)
skip_ws(c) ==
    IF c.pos < len
    THEN LET b == At(input, c.pos)
         IN IF b = Ch[" "] \/ b = Ch["\t"] \/ b = Ch["\r"]
            THEN skip_ws(Ctx(c.pos + 1, c.line, c.col + 1))
            ELSE IF b = Ch["\n"]
                 THEN skip_ws(Ctx(c.pos + 1, c.line + 1, 1))
                 ELSE c
    ELSE c

\* consume: [ok, c]
consume(c, expected) ==
    LET w == skip_ws(c)
    IN IF w.pos < len /\ At(input, w.pos) = expected
       THEN [ok |-> TRUE, c |-> Ctx(w.pos + 1, w.line, w.col + 1)]
       ELSE [ok |-> FALSE, c |-> w]

\* peek: the character; the context it leaves is skip_ws(c)
peek(c) ==
    LET w == skip_ws(c)
    IN IF w.pos >= len THEN 0 ELSE At(input, w.pos)

\* parse_null, parse_true, parse_false share this shape.
ParseLiteral(c, d, word, type, msg, fail) ==
    LET n == Len(word)
    IN IF c.pos + n <= len /\ \A i \in 1..n : At(input, c.pos + i - 1) = word[i]
       THEN LET a == arena_alloc_val(d, fail)
                c2 == Ctx(c.pos + n, c.line, c.col + n)
            IN IF a.val = NULL THEN FailOom(c2, d)
               ELSE Done(c2, Store(a.d, a.val, val_set_type(ZeroVal, type)), a.val)
       ELSE Fail(c, d, JSON_ERROR_SYNTAX, msg)

parse_null(c, d, fail) ==
    ParseLiteral(c, d, Lit(<<"n", "u", "l", "l">>), JSON_NULL, "Expected 'null'", fail)

parse_true(c, d, fail) ==
    ParseLiteral(c, d, Lit(<<"t", "r", "u", "e">>), JSON_TRUE, "Expected 'true'", fail)

parse_false(c, d, fail) ==
    ParseLiteral(c, d, Lit(<<"f", "a", "l", "s", "e">>), JSON_FALSE, "Expected 'false'", fail)

\* while (i < remaining && isdigit(start[i])) i++;
ScanDigits(start, i, remaining) ==
    CHOOSE j \in i..Max(i, remaining) :
        /\ \A k \in i..(j - 1) : IsDigit(At(input, start + k))
        /\ ~(j < remaining /\ IsDigit(At(input, start + j)))

\* (uint64_t)ival & 0x0FFFFFFFFFFFFFFFULL
Mask60(w) == [w EXCEPT ![4] = @ % 4096]

\* parse_number from arena_alloc_val on: the i scanned bytes at start are decoded.
NumberNode(c, d, start, i, is_float, fail) ==
    Let(arena_alloc_val(d, fail), LAMBDA a :
    Let(Ctx(c.pos + i, c.line, c.col + i), LAMBDA c2 :
    IF a.val = NULL THEN FailOom(c, d)
    ELSE IF is_float
    THEN Let(strtod(input, start), LAMBDA r :
         IF r.erange THEN Fail(c, a.d, JSON_ERROR_NUMBER, "Number out of range")
         ELSE Done(c2, Store(a.d, a.val,
                             [val_set_type(ZeroVal, JSON_FLOAT) EXCEPT !.w2 = W2Float(r.val)]),
                   a.val))
    ELSE Let(strtoll(input, start), LAMBDA r :
         IF r.erange
         THEN Done(c2, Store(a.d, a.val,
                             [val_set_type(ZeroVal, JSON_FLOAT)
                                EXCEPT !.w2 = W2Float(strtod(input, start).val)]),
                   a.val)
         ELSE Done(c2, Store(a.d, a.val,
                             val_set_payload(val_set_type(ZeroVal, JSON_INT), Mask60(r.val))),
                   a.val))))

parse_number(c, d, fail) ==
    Let(c.pos, LAMBDA start :
    Let(len - c.pos, LAMBDA remaining :
    Let(IF 0 < remaining /\ At(input, start) = Ch["-"] THEN 1 ELSE 0, LAMBDA i0 :
    IF i0 >= remaining \/ ~IsDigit(At(input, start + i0))
    THEN Fail(c, d, JSON_ERROR_NUMBER, "Invalid number")
    ELSE IF At(input, start + i0) = Ch["0"] /\ i0 + 1 < remaining
            /\ IsDigit(At(input, start + i0 + 1))
    THEN Fail(c, d, JSON_ERROR_NUMBER, "Leading zeros not allowed")
    ELSE
    Let(ScanDigits(start, i0, remaining), LAMBDA i1 :
    Let(i1 < remaining /\ At(input, start + i1) = Ch["."], LAMBDA hasfrac :
    IF hasfrac /\ (i1 + 1 >= remaining \/ ~IsDigit(At(input, start + i1 + 1)))
    THEN Fail(c, d, JSON_ERROR_NUMBER, "Expected digit after decimal point")
    ELSE
    Let(IF hasfrac THEN ScanDigits(start, i1 + 1, remaining) ELSE i1, LAMBDA i2 :
    Let(i2 < remaining /\ At(input, start + i2) \in {Ch["e"], Ch["E"]}, LAMBDA hasexp :
    Let(IF i2 + 1 < remaining /\ At(input, start + i2 + 1) \in {Ch["+"], Ch["-"]}
        THEN i2 + 2 ELSE i2 + 1, LAMBDA i3 :
    IF hasexp /\ (i3 >= remaining \/ ~IsDigit(At(input, start + i3)))
    THEN Fail(c, d, JSON_ERROR_NUMBER, "Expected digit in exponent")
    ELSE NumberNode(c, d, start,
                    IF hasexp THEN ScanDigits(start, i3, remaining) ELSE i2,
                    hasfrac \/ hasexp, fail)))))))))

hex_digit(b) ==
    IF b >= Ch["0"] /\ b <= Ch["9"] THEN b - Ch["0"]
    ELSE IF b >= Ch["a"] /\ b <= Ch["f"] THEN b - Ch["a"] + 10
    ELSE IF b >= Ch["A"] /\ b <= Ch["F"] THEN b - Ch["A"] + 10
    ELSE -1

\* parse_unicode_escape at position p: [ok, cp]; on success pos and col move by 4.
parse_unicode_escape(p) ==
    LET h(i) == hex_digit(At(input, p + i))
    IN IF p + 4 > len \/ \E i \in 0..3 : h(i) < 0
       THEN [ok |-> FALSE, cp |-> 0]
       ELSE [ok |-> TRUE, cp |-> ((h(0) * 16 + h(1)) * 16 + h(2)) * 16 + h(3)]

encode_utf8(cp) ==
    IF cp < 128 THEN <<cp>>
    ELSE IF cp < 2048 THEN <<192 + (cp \div 64), 128 + (cp % 64)>>
    ELSE IF cp < 65536
         THEN <<224 + (cp \div 4096), 128 + ((cp \div 64) % 64), 128 + (cp % 64)>>
    ELSE IF cp <= 1114111
         THEN <<240 + (cp \div 262144), 128 + ((cp \div 4096) % 64),
                128 + ((cp \div 64) % 64), 128 + (cp % 64)>>
    ELSE <<>>

IsHighSurrogate(cp) == cp >= 55296 /\ cp <= 56319

Combine(cp, cp2) == 65536 + (cp - 55296) * 1024 + (cp2 - 56320)

SimpleEscapes ==
    {Ch["\""], Ch["\\"], Ch["/"], Ch["b"], Ch["f"], Ch["n"], Ch["r"], Ch["t"]}

\* First pass of parse_string, from the byte after the opening quote.
\* s = [pos, col, n, esc, msg]: n is the decoded length, esc is has_escapes,
\* msg the message of the error that stopped the pass ("" if none).
RECURSIVE StringPass1(_)
StringPass1(s) ==
    LET Stop(p, cl, m) == [s EXCEPT !.pos = p, !.col = cl, !.msg = m]
        Go(p, cl, k, e) == StringPass1([pos |-> p, col |-> cl, n |-> s.n + k,
                                        esc |-> e, msg |-> ""])
        Unicode(p1, c1) ==
            Let(parse_unicode_escape(p1 + 1), LAMBDA u :
            Let(p1 + 5, LAMBDA p5 :
            Let(c1 + 5, LAMBDA c5 :
            IF ~u.ok THEN Stop(p1 + 1, c1 + 1, "Invalid unicode escape")
            ELSE IF ~IsHighSurrogate(u.cp) THEN Go(p5, c5, Len(encode_utf8(u.cp)), TRUE)
            ELSE IF p5 + 2 > len \/ At(input, p5) # Ch["\\"] \/ At(input, p5 + 1) # Ch["u"]
            THEN Stop(p5, c5, "Expected surrogate pair")
            ELSE Let(parse_unicode_escape(p5 + 2), LAMBDA u2 :
                 IF ~u2.ok THEN Stop(p5 + 2, c5 + 2, "Invalid unicode escape")
                 ELSE IF u2.cp < 56320 \/ u2.cp > 57343
                 THEN Stop(p5 + 6, c5 + 6, "Invalid low surrogate")
                 ELSE Go(p5 + 6, c5 + 6, Len(encode_utf8(Combine(u.cp, u2.cp))), TRUE)))))
        Escape(p1, c1) ==
            IF p1 >= len THEN Stop(p1, c1, "Unterminated escape")
            ELSE IF At(input, p1) \in SimpleEscapes THEN Go(p1 + 1, c1 + 1, 1, TRUE)
            ELSE IF At(input, p1) = Ch["u"] THEN Unicode(p1, c1)
            ELSE Stop(p1, c1, "Invalid escape sequence")
    IN IF s.pos >= len \/ At(input, s.pos) = Ch["\""] THEN s
       ELSE IF At(input, s.pos) = Ch["\\"] THEN Escape(s.pos + 1, s.col + 1)
       ELSE IF At(input, s.pos) < 32 THEN Stop(s.pos, s.col, "Control character in string")
       ELSE Go(s.pos + 1, s.col + 1, 1, s.esc)

\* The escape character without its translation.
UnescapeRaw(b) == b

UnescapeChar(b) ==
    IF b = Ch["b"] THEN 8
    ELSE IF b = Ch["f"] THEN Ch["\f"]
    ELSE IF b = Ch["n"] THEN Ch["\n"]
    ELSE IF b = Ch["r"] THEN Ch["\r"]
    ELSE IF b = Ch["t"] THEN Ch["\t"]
    ELSE b

\* cp = (cp << 4) | (uint32_t)hex_digit(...), four times (second pass)
Hex4(p) ==
    ((hex_digit(At(input, p)) * 16 + hex_digit(At(input, p + 1))) * 16
       + hex_digit(At(input, p + 2))) * 16 + hex_digit(At(input, p + 3))

\* Second pass of parse_string: the bytes written to str for input[src_pos, src_end).
RECURSIVE StringPass2(_, _)
StringPass2(src_pos, src_end) ==
    IF src_pos >= src_end THEN <<>>
    ELSE LET b == At(input, src_pos)
             esc == At(input, src_pos + 1)
             cp == Hex4(src_pos + 2)
         IN IF b = Ch["\\"]
            THEN IF esc = Ch["u"]
                 THEN IF IsHighSurrogate(cp)
                      THEN encode_utf8(Combine(cp, Hex4(src_pos + 8)))
                             \o StringPass2(src_pos + 12, src_end)
                      ELSE encode_utf8(cp) \o StringPass2(src_pos + 6, src_end)
                 ELSE <<UnescapeChar(esc)>> \o StringPass2(src_pos + 2, src_end)
            ELSE <<b>> \o StringPass2(src_pos + 1, src_end)

\* tag_payload = JSON_STRING_SHORT, without the length
ShortStringWordNoLen(bytes) ==
    WFromBytes(<<JSON_STRING_SHORT>> \o bytes \o Zeros(JSON_SHORT_STR_MAX - Len(bytes)))

\* tag_payload = JSON_STRING_SHORT | (len << 4), then memcpy to bytes 1..len
ShortStringWord(bytes) ==
    WFromBytes(<<JSON_STRING_SHORT + 16 * Len(bytes)>> \o bytes
                 \o Zeros(JSON_SHORT_STR_MAX - Len(bytes)))

parse_string(c, d, fail1, fail2, moved) ==
    IF c.pos >= len \/ At(input, c.pos) # Ch["\""]
    THEN Fail(c, d, JSON_ERROR_SYNTAX, "Expected '\"'")
    ELSE
    Let(c.pos + 1, LAMBDA start :
    Let(StringPass1([pos |-> start, col |-> c.col + 1, n |-> 0, esc |-> FALSE, msg |-> ""]),
        LAMBDA s :
    IF s.msg # "" THEN Fail(Ctx(s.pos, c.line, s.col), d, JSON_ERROR_STRING, s.msg)
    ELSE IF s.pos >= len
    THEN Fail(Ctx(s.pos, c.line, s.col), d, JSON_ERROR_STRING, "Unterminated string")
    ELSE
    Let(Ctx(s.pos + 1, c.line, s.col + 1), LAMBDA c2 :
    Let(arena_alloc_val(d, fail1), LAMBDA a :
    IF a.val = NULL THEN FailOom(c2, d)
    ELSE IF ~s.esc /\ s.n <= JSON_SHORT_STR_MAX
    THEN Done(c2,
              Store(a.d, a.val,
                    [ZeroVal EXCEPT !.tag_payload =
                        ShortStringWord([i \in 1..s.n |-> At(input, start + i - 1)])]),
              a.val)
    ELSE
    Let(arena_alloc_string(a.d,
                           IF s.esc THEN StringPass2(start, s.pos)
                           ELSE [i \in 1..s.n |-> At(input, start + i - 1)],
                           fail2, moved), LAMBDA st :
    IF ~st.ok THEN FailOom(c2, a.d)
    ELSE Done(c2,
              Store(st.d, a.val,
                    [val_set_payload(val_set_type(ZeroVal, JSON_STRING_LONG), W64(s.n))
                       EXCEPT !.w2 = st.str]),
              a.val))))))

(***************************************************************************)
(* Reading memory through a char pointer.  A char pointer is [base, gen,   *)
(* off]: a byte offset into the node arena block or the string block of    *)
(* generation gen.  Indet stands for a byte whose value the program does   *)
(* not determine (the bits of an address, memory never written, memory     *)
(* already freed).                                                         *)
(***************************************************************************)
Indet == 0 - 1

CharPtr(base, g, off) == [base |-> base, gen |-> g, off |-> off]

NullCharPtr == CharPtr("null", 0, 0)

\* The 24 bytes of a node as they lie in memory.
ValBytes(v) ==
    WBytes(v.tag_payload)
      \o (IF v.next = NULL THEN Zeros(8) ELSE [i \in 1..8 |-> Indet])
      \o (IF v.w2.k = "null" \/ (v.w2.k = "float" /\ v.w2.f = FZero)
          THEN Zeros(8) ELSE [i \in 1..8 |-> Indet])

ArenaByte(d, g, off) ==
    IF g = d.agen /\ off >= 0 /\ off < d.arena_used
    THEN ValBytes(d.arena[(off \div SizeofVal) + 1])[(off % SizeofVal) + 1]
    ELSE Indet

StringsByte(d, g, off) ==
    IF g = d.sgen /\ off >= 0 /\ off < d.strings_used THEN d.strings[off + 1] ELSE Indet

\* The n bytes at q.
MemRead(d, q, n) ==
    [i \in 1..n |-> IF q.base = "arena" THEN ArenaByte(d, q.gen, q.off + i - 1)
                    ELSE IF q.base = "strings" THEN StringsByte(d, q.gen, q.off + i - 1)
                    ELSE Indet]

(***************************************************************************)
(* Query API (json_asm.c).  d is the document that owns the node p.        *)
(***************************************************************************)
json_get_type(d, p) ==
    IF p = NULL THEN JSON_NULL
    ELSE LET t == val_get_type(Val(d, p))
         IN IF t = JSON_STRING_SHORT \/ t = JSON_STRING_LONG THEN JSON_STRING ELSE t

\* (int64_t)d for a double whose integral part has at most 18 digits.
FloatToInt(f) ==
    LET n == Len(f.digs)
        ip == IF f.exp >= 0 THEN f.digs \o Zeros(f.exp)
              ELSE IF n + f.exp > 0 THEN SubSeq(f.digs, 1, n + f.exp) ELSE <<>>
        m == AccDec(ip, 1, [w |-> WZero, ovf |-> FALSE]).w
    IN IF f.neg THEN WNeg(m) ELSE m

\* json_get_int, as a 64-bit word.
json_get_int(d, p) ==
    IF p = NULL THEN WZero
    ELSE LET v == Val(d, p)
             t == val_get_type(v)
             payload == val_get_payload(v)
         IN IF t = JSON_INT
            THEN IF payload[4] \div 2048 = 1
                 THEN [payload EXCEPT ![4] = @ + 61440]
                 ELSE payload
            ELSE IF t = JSON_FLOAT THEN FloatToInt(v.w2.f)
            ELSE WZero

\* (double)i for |i| < 10^17
IntToFloat(w) ==
    LET neg == WIsNeg(w)
        ds == [k \in 1..Len(WDigits(IF neg THEN WNeg(w) ELSE w)) |->
                 WDigits(IF neg THEN WNeg(w) ELSE w)[k] - Ch["0"]]
        r == RoundSig(StripLead(ds), 0)
    IN [neg |-> neg, digs |-> r.digs, exp |-> r.exp]

json_get_num(d, p) ==
    IF p = NULL THEN FZero
    ELSE LET v == Val(d, p)
             t == val_get_type(v)
         IN IF t = JSON_FLOAT THEN v.w2.f
            ELSE IF t = JSON_INT THEN IntToFloat(json_get_int(d, p))
            ELSE FZero

\* json_get_str: the char pointer returned.  For a LongString it is whatever
\* word 2 of the node holds, read as const char *.
json_get_str(d, p) ==
    IF p = NULL THEN NullCharPtr
    ELSE LET v == Val(d, p)
             t == val_get_type(v)
         IN IF t = JSON_STRING_SHORT
            THEN CharPtr("arena", p.gen, (p.idx - 1) * SizeofVal + 1)
            ELSE IF t = JSON_STRING_LONG
            THEN IF v.w2.k = "str" THEN CharPtr("strings", v.w2.p.gen, v.w2.p.idx)
                 ELSE IF v.w2.k = "child" /\ v.w2.p # NULL
                 THEN CharPtr("arena", v.w2.p.gen, (v.w2.p.idx - 1) * SizeofVal)
                 ELSE IF v.w2.k = "float" THEN CharPtr("wild", 0, 0)
                 ELSE NullCharPtr
            ELSE NullCharPtr

json_get_str_len(d, p) ==
    IF p = NULL THEN 0
    ELSE LET v == Val(d, p)
             t == val_get_type(v)
         IN IF t = JSON_STRING_SHORT THEN val_short_str_len(v)
            ELSE IF t = JSON_STRING_LONG THEN WSmall(val_get_payload(v))
            ELSE 0

\* The bytes a caller reads from json_get_str(p) over json_get_str_len(p).
StrBytes(d, p) == MemRead(d, json_get_str(d, p), json_get_str_len(d, p))

json_obj_key(d, p) == json_get_str(d, p)

json_obj_key_len(d, p) == json_get_str_len(d, p)

\* val->child and val->next as the code reads them (word 2 read as a pointer).
Child(d, p) == LET v == Val(d, p) IN IF v.w2.k = "child" THEN v.w2.p ELSE NULL

Next_(d, p) == Val(d, p).next

\* The sibling list from p, by following next.
RECURSIVE Siblings(_, _)
Siblings(d, p) == IF p = NULL THEN <<>> ELSE <<p>> \o Siblings(d, Next_(d, p))

json_obj_first(d, obj) ==
    IF obj = NULL \/ val_get_type(Val(d, obj)) # JSON_OBJECT THEN NULL ELSE Child(d, obj)

json_arr_first(d, arr) ==
    IF arr = NULL \/ val_get_type(Val(d, arr)) # JSON_ARRAY THEN NULL ELSE Child(d, arr)

json_obj_size(d, obj) == Len(Siblings(d, json_obj_first(d, obj)))

json_arr_size(d, arr) == Len(Siblings(d, json_arr_first(d, arr)))

\* json_obj_getn: key is the sequence of key_len bytes the caller passes.
json_obj_getn(d, obj, key) ==
    IF obj = NULL \/ val_get_type(Val(d, obj)) # JSON_OBJECT THEN NULL
    ELSE LET ks == Siblings(d, Child(d, obj))
             hit(k) == /\ json_get_str_len(d, ks[k]) = Len(key)
                       /\ json_get_str(d, ks[k]) # NullCharPtr
                       /\ StrBytes(d, ks[k]) = key
         IN IF \E k \in 1..Len(ks) : hit(k)
            THEN Child(d, ks[CHOOSE k \in 1..Len(ks) :
                                hit(k) /\ \A j \in 1..(k - 1) : ~hit(j)])
            ELSE NULL

json_get_bool(d, p) == p # NULL /\ val_get_type(Val(d, p)) = JSON_TRUE

json_get_uint(d, p) ==
    LET v == json_get_int(d, p) IN IF WIsNeg(v) THEN WZero ELSE v

\* json_obj_get: key is [null, s], a NULL pointer or a C string of bytes s
\* (strlen(key) = Len(s): s holds no NUL).
json_obj_get(d, obj, key) == IF key.null THEN NULL ELSE json_obj_getn(d, obj, key.s)

\* json_arr_get without its type check.
json_arr_get_unchecked(d, arr, index) ==
    IF arr = NULL THEN NULL
    ELSE LET s == Siblings(d, Child(d, arr))
         IN IF index < Len(s) THEN s[index + 1] ELSE NULL

json_arr_get(d, arr, index) ==
    IF arr = NULL \/ val_get_type(Val(d, arr)) # JSON_ARRAY THEN NULL
    ELSE LET s == Siblings(d, Child(d, arr))
         IN IF index < Len(s) THEN s[index + 1] ELSE NULL

(***************************************************************************)
(* Serializer (stringify.c).  so is json_stringify_options: [flags,        *)
(* indent, newline]; a NULL opts behaves as flags = 0 everywhere it is     *)
(* tested.                                                                 *)
(***************************************************************************)
JSON_STRINGIFY_PRETTY == 1

NoStringifyOpts == [flags |-> 0, indent |-> 0, newline |-> [null |-> TRUE, s |-> <<>>]]

Pretty(so) == so.flags % 2 = JSON_STRINGIFY_PRETTY

\* hex_digits[n]
HexDigitChar(n) == IF n < 10 THEN Ch["0"] + n ELSE Ch["a"] + (n - 10)

EscapeByte(b) ==
    IF b = Indet THEN <<Indet>>
    ELSE IF b = Ch["\""] THEN <<Ch["\\"], Ch["\""]>>
    ELSE IF b = Ch["\\"] THEN <<Ch["\\"], Ch["\\"]>>
    ELSE IF b = 8 THEN <<Ch["\\"], Ch["b"]>>
    ELSE IF b = Ch["\f"] THEN <<Ch["\\"], Ch["f"]>>
    ELSE IF b = Ch["\n"] THEN <<Ch["\\"], Ch["n"]>>
    ELSE IF b = Ch["\r"] THEN <<Ch["\\"], Ch["r"]>>
    ELSE IF b = Ch["\t"] THEN <<Ch["\\"], Ch["t"]>>
    ELSE IF b < 32
         THEN <<Ch["\\"], Ch["u"], Ch["0"], Ch["0"],
                HexDigitChar((b \div 16) % 16), HexDigitChar(b % 16)>>
    ELSE <<b>>

stringify_string(bytes) ==
    <<Ch["\""]>> \o Flatten([i \in 1..Len(bytes) |-> EscapeByte(bytes[i])]) \o <<Ch["\""]>>

stringify_number(d, p) ==
    IF val_get_type(Val(d, p)) = JSON_INT THEN FormatLL(json_get_int(d, p))
    ELSE FormatG17(Val(d, p).w2.f)

\* stringify_indent without the indent loop
stringify_indent_flat(so, dp) ==
    IF ~Pretty(so) THEN <<>>
    ELSE IF so.newline.null THEN <<Ch["\n"]>> ELSE so.newline.s

stringify_indent(so, dp) ==
    IF ~Pretty(so) THEN <<>>
    ELSE (IF so.newline.null THEN <<Ch["\n"]>> ELSE so.newline.s)
           \o [i \in 1..(dp * so.indent) |-> Ch[" "]]

RECURSIVE stringify_value_impl(_, _, _, _)
stringify_value_impl(d, p, so, dp) ==
    LET t == val_get_type(Val(d, p))
        kids == Siblings(d, Child(d, p))
        Sep(k) == (IF k > 1 THEN <<Ch[","]>> ELSE <<>>) \o stringify_indent(so, dp + 1)
        Close == IF kids # <<>> THEN stringify_indent(so, dp) ELSE <<>>
        stringify_array ==
            <<Ch["["]>>
              \o Flatten([k \in 1..Len(kids) |->
                    Sep(k) \o stringify_value_impl(d, kids[k], so, dp + 1)])
              \o Close \o <<Ch["]"]>>
        stringify_object ==
            <<Ch["{"]>>
              \o Flatten([k \in 1..Len(kids) |->
                    Sep(k) \o stringify_string(StrBytes(d, kids[k])) \o <<Ch[":"]>>
                      \o (IF Pretty(so) THEN <<Ch[" "]>> ELSE <<>>)
                      \o stringify_value_impl(d, Child(d, kids[k]), so, dp + 1)])
              \o Close \o <<Ch["}"]>>
    IN IF p = NULL THEN Lit(<<"n", "u", "l", "l">>)
       ELSE IF t = JSON_NULL THEN Lit(<<"n", "u", "l", "l">>)
       ELSE IF t = JSON_FALSE THEN Lit(<<"f", "a", "l", "s", "e">>)
       ELSE IF t = JSON_TRUE THEN Lit(<<"t", "r", "u", "e">>)
       ELSE IF t = JSON_INT \/ t = JSON_FLOAT THEN stringify_number(d, p)
       ELSE IF t = JSON_STRING_SHORT \/ t = JSON_STRING_LONG
            THEN stringify_string(StrBytes(d, p))
       ELSE IF t = JSON_ARRAY THEN stringify_array
       ELSE IF t = JSON_OBJECT THEN stringify_object
       ELSE Lit(<<"n", "u", "l", "l">>)

\* stringify_value: the C string returned, without its terminating NUL.
stringify_value(d, p, so) == stringify_value_impl(d, p, so, 0)

\* json_stringify_opts(p, so): [null, s], NULL or the C string returned
json_stringify_opts(d, p, so) ==
    IF p = NULL THEN [null |-> TRUE, s |-> <<>>]
    ELSE [null |-> FALSE, s |-> stringify_value(d, p, so)]

(***************************************************************************)
(* json_equals (json_asm.c).  a belongs to da and b to db; a == b compares *)
(* addresses, so nodes of different documents are never the same pointer.  *)
(***************************************************************************)
RECURSIVE json_equals(_, _, _, _)
json_equals(da, a, db, b) ==
    LET ta == json_get_type(da, a)
        sa == Siblings(da, Child(da, a))
        sb == Siblings(db, Child(db, b))
        MemberEq(key) ==
            LET vb == json_obj_getn(db, b, StrBytes(da, key))
            IN vb # NULL /\ json_equals(da, Child(da, key), db, vb)
    IN IF (a = NULL /\ b = NULL) \/ (da.id = db.id /\ a = b) THEN TRUE
       ELSE IF a = NULL \/ b = NULL THEN FALSE
       ELSE IF ta # json_get_type(db, b) THEN FALSE
       ELSE IF ta = JSON_NULL \/ ta = JSON_TRUE \/ ta = JSON_FALSE THEN TRUE
       ELSE IF ta = JSON_INT THEN json_get_int(da, a) = json_get_int(db, b)
       ELSE IF ta = JSON_FLOAT THEN FloatEq(json_get_num(da, a), json_get_num(db, b))
       ELSE IF ta = JSON_STRING
            THEN json_get_str_len(da, a) = json_get_str_len(db, b)
                 /\ StrBytes(da, a) = StrBytes(db, b)
       ELSE IF ta = JSON_ARRAY
            THEN /\ Len(sa) = Len(sb)
                 /\ \A k \in 1..Len(sa) : json_equals(da, sa[k], db, sb[k])
       ELSE IF ta = JSON_OBJECT
            THEN /\ json_obj_size(da, a) = json_obj_size(db, b)
                 /\ \A k \in 1..Len(sa) : MemberEq(sa[k])
       ELSE FALSE

(***************************************************************************)
(* The parse as a state machine.  parse_value, parse_array and             *)
(* parse_object recurse in the code; here `stack` holds the activations of *)
(* parse_array and parse_object that wait for a child value, with their    *)
(* locals, and pc tells whether parse_value is about to run ("value") or   *)
(* has just returned `ret` to its caller ("ret").                          *)
(***************************************************************************)
\* from (where the container began) and bytes (the key's bytes as parse_string
\* decoded them) are kept for the properties; the code has no such locals.
Frame(kind, node, key, bytes, from) ==
    [kind |-> kind, node |-> node, first |-> NULL, prev |-> NULL, key |-> key,
     bytes |-> bytes, from |-> from]

Cur == Ctx(pos, line, col)

Top == stack[Len(stack)]

Pop == SubSeq(stack, 1, Len(stack) - 1)

FailChoices == IF mayfail THEN BOOLEAN ELSE {FALSE}

HasFlag(flags, bit) == (flags \div bit) % 2 = 1

\* p->child = q and p->next = q.
SetChild(d, p, q) == IF Live(d, p) THEN [d EXCEPT !.arena[p.idx].w2 = W2Child(q)] ELSE d

SetNext(d, p, q) == IF Live(d, p) THEN [d EXCEPT !.arena[p.idx].next = q] ELSE d

\* What the calling thread does not touch while it parses.
Env == <<input, len, opts, round, docs, outs, prior, mayfail, kin, kout, result, freed, LibVars, got>>

\* A parse_* call returns r to its caller; the value began at input index from.
Return(r, from) ==
    /\ pos' = r.c.pos
    /\ line' = r.c.line
    /\ col' = r.c.col
    /\ doc' = r.d
    /\ ret' = r.val
    /\ err' = IF r.e = <<>> THEN err ELSE r.e[1]
    /\ oomed' = (oomed \/ r.oom)
    /\ span' = [from |-> from, to |-> r.c.pos]
    /\ pc' = "ret"

\* The caller goes on to its next parse_value call.
Descend(c, d, frames, dp) ==
    /\ pos' = c.pos
    /\ line' = c.line
    /\ col' = c.col
    /\ doc' = d
    /\ stack' = frames
    /\ depth' = dp
    /\ pc' = "value"
    /\ UNCHANGED <<ret, err, oomed, span>>

\* The depth check taken one container too late.
DepthExceededLate(max_depth, dp) == max_depth > 0 /\ dp > max_depth

\* if (ctx->max_depth > 0 && ctx->depth >= ctx->max_depth)
DepthExceeded(max_depth, dp) == max_depth > 0 /\ dp >= max_depth

\* parse_value, case 'n'
parse_value_null ==
    /\ pc = "value"
    /\ peek(Cur) = Ch["n"]
    /\ \E fail \in FailChoices :
         Return(parse_null(skip_ws(Cur), doc, fail), skip_ws(Cur).pos)
    /\ UNCHANGED <<Env, stack, depth, members>>

\* parse_value, case 't'
parse_value_true ==
    /\ pc = "value"
    /\ peek(Cur) = Ch["t"]
    /\ \E fail \in FailChoices :
         Return(parse_true(skip_ws(Cur), doc, fail), skip_ws(Cur).pos)
    /\ UNCHANGED <<Env, stack, depth, members>>

\* parse_value, case 'f'
parse_value_false ==
    /\ pc = "value"
    /\ peek(Cur) = Ch["f"]
    /\ \E fail \in FailChoices :
         Return(parse_false(skip_ws(Cur), doc, fail), skip_ws(Cur).pos)
    /\ UNCHANGED <<Env, stack, depth, members>>

\* parse_value, case '"'
parse_value_string ==
    /\ pc = "value"
    /\ peek(Cur) = Ch["\""]
    /\ \E fail1 \in FailChoices, fail2 \in FailChoices, moved \in BOOLEAN :
         Return(parse_string(skip_ws(Cur), doc, fail1, fail2, moved), skip_ws(Cur).pos)
    /\ UNCHANGED <<Env, stack, depth, members>>

\* parse_value, cases '-' and '0'..'9'
parse_value_number ==
    /\ pc = "value"
    /\ (peek(Cur) = Ch["-"] \/ IsDigit(peek(Cur)))
    /\ \E fail \in FailChoices :
         Return(parse_number(skip_ws(Cur), doc, fail), skip_ws(Cur).pos)
    /\ UNCHANGED <<Env, stack, depth, members>>

\* parse_value, case '\0' and default
parse_value_default ==
    /\ pc = "value"
    /\ peek(Cur) \notin {Ch["n"], Ch["t"], Ch["f"], Ch["\""], Ch["["], Ch["{"], Ch["-"]}
    /\ ~IsDigit(peek(Cur))
    /\ Return(Fail(skip_ws(Cur), doc, JSON_ERROR_SYNTAX,
                   IF peek(Cur) = 0 THEN "Unexpected end of input"
                   ELSE "Unexpected character"),
              skip_ws(Cur).pos)
    /\ UNCHANGED <<Env, stack, depth, members>>

\* parse_value, case '[': parse_array up to its first parse_value call
parse_value_array ==
    /\ pc = "value"
    /\ peek(Cur) = Ch["["]
    /\ \E fail \in FailChoices :
         Let(consume(Cur, Ch["["]).c, LAMBDA w :
         Let(arena_alloc_val(doc, fail), LAMBDA a :
         IF DepthExceeded(opts.max_depth, depth)
         THEN /\ Return(Fail(w, doc, JSON_ERROR_DEPTH, "Maximum depth exceeded"), w.pos - 1)
              /\ UNCHANGED <<stack, depth>>
         ELSE IF a.val = NULL
         THEN /\ Return(FailOom(w, doc), w.pos - 1)
              /\ depth' = depth + 1
              /\ UNCHANGED stack
         ELSE
         Let(Store(a.d, a.val, val_set_type(ZeroVal, JSON_ARRAY)), LAMBDA d1 :
         IF peek(w) = Ch["]"]
         THEN /\ Return(Done(consume(w, Ch["]"]).c, d1, a.val), w.pos - 1)
              /\ UNCHANGED <<stack, depth>>
         ELSE Descend(w, d1, Append(stack, Frame("array", a.val, NULL, <<>>, w.pos - 1)),
                      depth + 1))))
    /\ UNCHANGED <<Env, members>>

\* parse_array from the return of a parse_value call to the next call or to
\* its own return
parse_array_loop ==
    /\ pc = "ret"
    /\ stack # <<>>
    /\ Top.kind = "array"
    /\ Let(Top, LAMBDA f :
       Let(ret, LAMBDA elem :
       IF elem = NULL
       THEN /\ stack' = Pop
            /\ UNCHANGED <<pos, line, col, doc, ret, err, oomed, span, pc, depth>>
       ELSE
       Let(IF f.first = NULL THEN SetChild(doc, f.node, elem)
           ELSE SetNext(doc, f.prev, elem), LAMBDA d1 :
       Let(consume(Cur, Ch[","]), LAMBDA cm :
       IF peek(Cur) = Ch["]"]
       THEN /\ Return(Done(consume(Cur, Ch["]"]).c, d1, f.node), f.from)
            /\ depth' = depth - 1
            /\ stack' = Pop
       ELSE IF ~cm.ok
       THEN /\ Return(Fail(cm.c, d1, JSON_ERROR_SYNTAX, "Expected ',' or ']'"), f.from)
            /\ stack' = Pop
            /\ UNCHANGED depth
       ELSE IF HasFlag(opts.flags, JSON_PARSE_ALLOW_TRAILING) /\ peek(cm.c) = Ch["]"]
       THEN /\ Return(Done(consume(cm.c, Ch["]"]).c, d1, f.node), f.from)
            /\ depth' = depth - 1
            /\ stack' = Pop
       ELSE Descend(cm.c, d1,
                    Append(Pop, [f EXCEPT !.first = IF @ = NULL THEN elem ELSE @,
                                          !.prev = elem]),
                    depth)))))
    /\ UNCHANGED <<Env, members>>

\* The head of parse_object's loop: the member's key and the colon.
ObjectKey(c, d, fail1, fail2, moved) ==
    IF peek(c) # Ch["\""]
    THEN Fail(skip_ws(c), d, JSON_ERROR_SYNTAX, "Expected string key")
    ELSE
    Let(parse_string(skip_ws(c), d, fail1, fail2, moved), LAMBDA k :
    IF k.val = NULL THEN k
    ELSE Let(consume(k.c, Ch[":"]), LAMBDA cl :
         IF ~cl.ok THEN Fail(cl.c, k.d, JSON_ERROR_SYNTAX, "Expected ':'")
         ELSE Done(cl.c, k.d, k.val)))

\* parse_value, case '{': parse_object up to its first parse_value call
parse_value_object ==
    /\ pc = "value"
    /\ peek(Cur) = Ch["{"]
    /\ \E fail \in FailChoices, fail1 \in FailChoices, fail2 \in FailChoices,
          moved \in BOOLEAN :
         Let(consume(Cur, Ch["{"]).c, LAMBDA w :
         Let(arena_alloc_val(doc, fail), LAMBDA a :
         IF DepthExceeded(opts.max_depth, depth)
         THEN /\ Return(Fail(w, doc, JSON_ERROR_DEPTH, "Maximum depth exceeded"), w.pos - 1)
              /\ UNCHANGED <<stack, depth>>
         ELSE IF a.val = NULL
         THEN /\ Return(FailOom(w, doc), w.pos - 1)
              /\ depth' = depth + 1
              /\ UNCHANGED stack
         ELSE
         Let(Store(a.d, a.val, val_set_type(ZeroVal, JSON_OBJECT)), LAMBDA d1 :
         IF peek(w) = Ch["}"]
         THEN /\ Return(Done(consume(w, Ch["}"]).c, d1, a.val), w.pos - 1)
              /\ UNCHANGED <<stack, depth>>
         ELSE
         Let(ObjectKey(w, d1, fail1, fail2, moved), LAMBDA k :
         IF k.val = NULL
         THEN /\ Return(k, w.pos - 1)
              /\ depth' = depth + 1
              /\ UNCHANGED stack
         ELSE Descend(k.c, k.d, Append(stack, Frame("object", a.val, k.val, StrBytes(k.d, k.val), w.pos - 1)),
                      depth + 1)))))
    /\ UNCHANGED <<Env, members>>

\* parse_object from the return of a parse_value call to the next call or to
\* its own return
parse_object_loop ==
    /\ pc = "ret"
    /\ stack # <<>>
    /\ Top.kind = "object"
    /\ \E fail1 \in FailChoices, fail2 \in FailChoices, moved \in BOOLEAN :
         Let(Top, LAMBDA f :
         Let(ret, LAMBDA value :
         IF value = NULL
         THEN /\ stack' = Pop
              /\ UNCHANGED <<pos, line, col, doc, ret, err, oomed, span, pc, depth>>
         ELSE
         Let(SetChild(doc, f.key, value), LAMBDA d1 :
         Let(IF f.first = NULL THEN SetChild(d1, f.node, f.key)
             ELSE SetNext(d1, f.prev, f.key), LAMBDA d2 :
         Let(consume(Cur, Ch[","]), LAMBDA cm :
         IF peek(Cur) = Ch["}"]
         THEN /\ Return(Done(consume(Cur, Ch["}"]).c, d2, f.node), f.from)
              /\ depth' = depth - 1
              /\ stack' = Pop
         ELSE IF ~cm.ok
         THEN /\ Return(Fail(cm.c, d2, JSON_ERROR_SYNTAX, "Expected ',' or '}'"), f.from)
              /\ stack' = Pop
              /\ UNCHANGED depth
         ELSE IF HasFlag(opts.flags, JSON_PARSE_ALLOW_TRAILING) /\ peek(cm.c) = Ch["}"]
         THEN /\ Return(Done(consume(cm.c, Ch["}"]).c, d2, f.node), f.from)
              /\ depth' = depth - 1
              /\ stack' = Pop
         ELSE
         Let(ObjectKey(cm.c, d2, fail1, fail2, moved), LAMBDA k :
         IF k.val = NULL
         THEN /\ Return(k, f.from)
              /\ stack' = Pop
              /\ UNCHANGED depth
         ELSE Descend(k.c, k.d,
                      Append(Pop, [f EXCEPT !.first = IF @ = NULL THEN f.key ELSE @,
                                            !.prev = f.key, !.key = k.val,
                                            !.bytes = StrBytes(k.d, k.val)]),
                      depth)))))))
    /\ members' = IF ret = NULL THEN members
                   ELSE members \cup {[obj |-> Top.node, key |-> Top.key,
                                       bytes |-> Top.bytes, value |-> ret]}
    /\ UNCHANGED Env

\* arena_destroy: the document and its two blocks are freed.  What is left is
\* the address, which points at nothing.
arena_destroy(d) == [NoDoc EXCEPT !.id = d.id]

\* parse_json without its check for trailing content.
TrailingContentIgnored(w) == FALSE

\* if (ctx.pos < ctx.len), after the skip_ws that follows the root value
TrailingContent(w) == w.pos < len

\* parse_json after the root parse_value call has returned
parse_json_return ==
    /\ pc = "ret"
    /\ stack = <<>>
    /\ LET root == ret
           w == skip_ws(Cur)
       IN IF root = NULL
          THEN /\ doc' = arena_destroy(doc)
               /\ freed' = freed + 1
               /\ result' = "null"
               /\ UNCHANGED <<pos, line, col, err>>
          ELSE IF TrailingContent(w)
          THEN /\ err' = set_error(JSON_ERROR_SYNTAX, w.pos, w.line, w.col,
                                   "Trailing content after JSON")
               /\ doc' = arena_destroy([doc EXCEPT !.root = root])
               /\ freed' = freed + 1
               /\ result' = "null"
               /\ pos' = w.pos /\ line' = w.line /\ col' = w.col
          ELSE /\ doc' = [doc EXCEPT !.root = root]
               /\ result' = "doc"
               /\ pos' = w.pos /\ line' = w.line /\ col' = w.col
               /\ UNCHANGED <<err, freed>>
    /\ pc' = "done"
    /\ UNCHANGED <<input, len, opts, round, docs, outs, prior, mayfail, kin, kout,
                   stack, depth, ret, oomed, span, members, LibVars, got>>

\* parse_json: if (arena_size < 64 * 1024) arena_size = 64 * 1024;
ArenaFloor == 64 * 1024

\* json_parse_opts(json, n, o), through parse_json up to the root parse_value
\* call.  rnd numbers the calls of the run.
ParseCall(json, n, o, rnd, fail) ==
    LET estimated_values == (n \div 4) + 1
        arena_size == Max(estimated_values * SizeofVal, ArenaFloor)
        d == arena_create(arena_size, rnd, fail)
    IN /\ input' = json
       /\ len' = n
       /\ opts' = o
       /\ round' = rnd
       /\ stack' = <<>>
       /\ ret' = NULL
       /\ freed' = 0
       /\ span' = [from |-> 0, to |-> 0]
       /\ members' = {}
       /\ IF n = 0
          THEN /\ err' = set_error(JSON_ERROR_SYNTAX, 0, 1, 1, "Empty input")
               /\ result' = "null"
               /\ pc' = "done"
               /\ doc' = NoDoc
               /\ oomed' = FALSE
               /\ pos' = 0 /\ line' = 0 /\ col' = 0 /\ depth' = 0
          ELSE IF d = NoDoc
          THEN /\ err' = set_error(JSON_ERROR_MEMORY, 0, 0, 0, "Failed to allocate document")
               /\ result' = "null"
               /\ pc' = "done"
               /\ doc' = NoDoc
               /\ oomed' = TRUE
               /\ pos' = 0 /\ line' = 0 /\ col' = 0 /\ depth' = 0
          ELSE /\ doc' = d
               /\ pos' = 0 /\ line' = 1 /\ col' = 1 /\ depth' = 0
               /\ oomed' = FALSE
               /\ result' = "none"
               /\ pc' = "value"
               /\ UNCHANGED err

NullOpts == [flags |-> JSON_PARSE_DEFAULT, max_depth |-> 0]

\* The caller's json_parse_opts(input, len, opts)
json_parse_opts ==
    /\ pc = "idle"
    /\ \E fail \in FailChoices : ParseCall(input, len, opts, 1, fail)
    /\ UNCHANGED <<docs, outs, prior, mayfail, kin, kout, LibVars, got>>

\* Every link stored in the document points into its current arena block.
Sound(d) ==
    /\ Live(d, d.root)
    /\ \A i \in 1..Len(d.arena) :
         /\ d.arena[i].next = NULL \/ Live(d, d.arena[i].next)
         /\ d.arena[i].w2.k = "child" => (d.arena[i].w2.p = NULL \/ Live(d, d.arena[i].w2.p))

\* json_stringify(json_doc_root(doc)) on the document just returned.  The
\* string is NULL when the string buffer cannot be allocated.
json_stringify ==
    /\ pc = "done"
    /\ result = "doc"
    /\ Len(outs) < round
    /\ Sound(doc)
    /\ \E fail \in FailChoices :
         outs' = Append(outs, IF fail THEN [null |-> TRUE, s |-> <<>>]
                              ELSE [null |-> FALSE,
                                    s |-> stringify_value(doc, doc.root, NoStringifyOpts)])
    /\ UNCHANGED <<input, len, opts, pos, line, col, depth, doc, stack, pc, ret, err,
                   result, freed, span, members, round, docs, prior, mayfail, oomed,
                   kin, kout, LibVars, got>>

\* json_parse(str, strlen(str)) on the string json_stringify returned: the
\* second half of json_clone
json_clone_parse ==
    /\ pc = "done"
    /\ result = "doc"
    /\ round = 1
    /\ Len(outs) = round
    /\ ~outs[round].null
    /\ docs' = Append(docs, doc)
    /\ \E fail \in FailChoices :
         ParseCall(outs[round].s, Len(outs[round].s), NullOpts, round + 1, fail)
    /\ UNCHANGED <<outs, prior, mayfail, kin, kout, LibVars, got>>

Next ==
    \/ json_parse_opts
    \/ parse_value_null
    \/ parse_value_true
    \/ parse_value_false
    \/ parse_value_string
    \/ parse_value_number
    \/ parse_value_default
    \/ parse_value_array
    \/ parse_array_loop
    \/ parse_value_object
    \/ parse_object_loop
    \/ parse_json_return
    \/ json_stringify
    \/ json_clone_parse

(***************************************************************************)
(* Inputs.  A call is [buf, len, opts].  The inputs of Spec are JSON texts *)
(* built from a few scalars and keys (an Int, floats of integral value, a  *)
(* ShortString, a LongString, keys short, long and escaped, repeated       *)
(* keys), wrapped in up to MaxNest containers, and the same texts cut      *)
(* short or followed by something else.                                    *)
(***************************************************************************)
MaxNest == 1

Call(buf, n, o) == [buf |-> buf, len |-> n, opts |-> o]

Text(buf) == Call(buf, Len(buf), NullOpts)

Scalars ==
    {Lit(<<"1">>), Lit(<<"2">>), Lit(<<"1", ".", "0">>), Lit(<<"-", "0", ".", "0">>),
     Lit(<<"\"", "a", "\"">>), Lit(<<"\"", "a", "b", "c", "d", "e", "f", "g", "h", "\"">>)}

Keys ==
    {Lit(<<"\"", "a", "\"">>), Lit(<<"\"", "b", "\"">>),
     Lit(<<"\"", "a", "b", "c", "d", "e", "f", "g", "h", "\"">>),
     Lit(<<"\"", "\\", "n", "\"">>)}

Ints == {Lit(<<"1">>), Lit(<<"2">>)}

Arrays ==
    {Lit(<<"[", "]">>)}
      \cup {Lit(<<"[">>) \o a \o Lit(<<"]">>) : a \in Scalars}
      \cup {Lit(<<"[">>) \o a \o Lit(<<",">>) \o b \o Lit(<<"]">>) : a \in Scalars, b \in Scalars}

Objects ==
    {Lit(<<"{", "}">>)}
      \cup {Lit(<<"{">>) \o k \o Lit(<<":">>) \o a \o Lit(<<"}">>) : k \in Keys, a \in Scalars}
      \cup {Lit(<<"{">>) \o k \o Lit(<<":">>) \o a \o Lit(<<",">>) \o j \o Lit(<<":">>) \o b
              \o Lit(<<"}">>) : k \in Keys, j \in Keys, a \in {Lit(<<"1">>)}, b \in Ints}

Base == Scalars \cup Arrays \cup Objects

RECURSIVE Wrapped(_)
Wrapped(n) ==
    IF n = 0 THEN Base
    ELSE LET W == Wrapped(n - 1)
         IN W \cup {Lit(<<"[">>) \o v \o Lit(<<"]">>) : v \in W}
              \cup {Lit(<<"{", "\"", "a", "\"", ":">>) \o v \o Lit(<<"}">>) : v \in W}

Trails == {Lit(<<" ">>), Lit(<<"[", "]">>), Lit(<<" ", "x">>), Lit(<<",">>), Lit(<<"\n", "1">>)}

Prefixes(v) == {SubSeq(v, 1, n) : n \in 0..(Len(v) - 1)}

\* Inputs that reach the remaining cases of parse_value and the trailing-comma flag.
Seeds ==
    {Text(Lit(<<"[", "n", "u", "l", "l", ",", "t", "r", "u", "e", ",", " ",
                "f", "a", "l", "s", "e", "]">>)),
     Text(Lit(<<"\t", "n", "u", "l", "\r">>)),
     Text(Lit(<<"[", "1", ",", "x", "]">>)),
     Text(<<>>),
     Call(Lit(<<"[", "1", ",", "]">>), 4, [flags |-> JSON_PARSE_ALLOW_TRAILING, max_depth |-> 0]),
     Call(Lit(<<"{", "\"", "a", "\"", ":", "1", ",", "}">>), 8,
          [flags |-> JSON_PARSE_ALLOW_TRAILING, max_depth |-> 0])}

Calls ==
    {Text(v) : v \in Wrapped(MaxNest)}
      \cup {Text(v \o t) : v \in Base, t \in Trails}
      \cup {Text(p) : p \in UNION {Prefixes(v) : v \in Base}}
      \cup Seeds

(***************************************************************************)
(* Library initialisation (src/src/json_asm.c, src/src/cpu_detect.c).      *)
(* build is [arch, USE_SCALAR_ONLY, NO_AVX512, NO_SVE, cpu]: the target    *)
(* architecture, the feature-guard macros and the features the processor   *)
(* reports (CPUID bits, HWCAP bits).  A feature mask is the set of the     *)
(* JSON_CPU_* bits set in it; a kernel pointer is the name of the variant  *)
(* it points to.                                                           *)
(***************************************************************************)
\* uint32_t cpu_detect_features(void)
cpu_detect_features(b) ==
    IF b.arch = "x86_64" THEN b.cpu \cap {"SSE42", "AVX2", "AVX512F", "AVX512BW"}
    ELSE IF b.arch = "arm64" THEN {"NEON"} \cup (b.cpu \cap {"SVE", "SVE2"})
    ELSE {}

\* json_init: the variant the #if / if chain selects for the mask f
SelectVariant(b, f) ==
    IF b.USE_SCALAR_ONLY THEN "scalar"
    ELSE IF b.arch = "x86_64"
         THEN IF ~b.NO_AVX512 /\ {"AVX512F", "AVX512BW"} \subseteq f THEN "avx512"
              ELSE IF "AVX2" \in f THEN "avx2"
              ELSE "sse42"
    ELSE IF b.arch = "arm64"
         THEN IF ~b.NO_SVE /\ "SVE2" \in f THEN "sve2"
              ELSE IF ~b.NO_SVE /\ "SVE" \in f THEN "sve"
              ELSE "neon"
    ELSE "scalar"

\* struct json_ops after json_init selected variant v
OpsOf(v) == [scan_string |-> v, find_structural |-> v, parse_int |-> v,
             parse_float |-> "scalar"]

\* struct json_ops g_json_ops; before json_init: zero-initialised
NoOps == [scan_string |-> "NULL", find_structural |-> "NULL", parse_int |-> "NULL",
          parse_float |-> "NULL"]

\* A build for an architecture without vector kernels.
ScalarBuild == [arch |-> "other", USE_SCALAR_ONLY |-> FALSE, NO_AVX512 |-> FALSE,
                NO_SVE |-> FALSE, cpu |-> {}]

\* The library after json_init has run, no other thread around.
LibReady ==
    /\ build = ScalarBuild
    /\ g_initialized = TRUE
    /\ g_cpu_features = cpu_detect_features(ScalarBuild)
    /\ g_json_ops = OpsOf(SelectVariant(ScalarBuild, cpu_detect_features(ScalarBuild)))
    /\ threads = <<>>

\* The state before the caller's json_parse_opts(c.buf, c.len, c.opts): mf is
\* whether allocations may fail, e what the thread's error record holds from
\* earlier calls.
Idle(c, mf, e) ==
    /\ input = c.buf
    /\ len = c.len
    /\ opts = c.opts
    /\ pos = 0 /\ line = 0 /\ col = 0 /\ depth = 0
    /\ doc = NoDoc
    /\ stack = <<>>
    /\ pc = "idle"
    /\ ret = NULL
    /\ err = e
    /\ result = "none"
    /\ freed = 0
    /\ span = [from |-> 0, to |-> 0]
    /\ members = {}
    /\ round = 0
    /\ docs = <<>>
    /\ outs = <<>>
    /\ prior = <<>>
    /\ mayfail = mf
    /\ oomed = FALSE
    /\ got = <<>>

\* No parse_int kernel is involved in the runs of the parser.
Start(c, mf, e) ==
    /\ Idle(c, mf, e)
    /\ LibReady
    /\ kin = <<>>
    /\ kout = <<>>

Init == \E c \in Calls : Start(c, FALSE, NoError)

Spec == Init /\ [][Next]_vars

(***************************************************************************)
(* Number literals and explicit lengths.  SpecNum calls json_parse_opts on *)
(* buffers whose first len bytes are a JSON text (integer literals around  *)
(* 2^59, 2^60 and 2^63 among them) and which go on after them, and calls   *)
(* it a second time on a buffer that differs only from index len on.       *)
(***************************************************************************)
Pow59Text == Lit(<<"5", "7", "6", "4", "6", "0", "7", "5", "2", "3", "0", "3", "4", "2", "3", "4", "8", "8">>)

NumTexts ==
    {Lit(<<"0">>),
     Lit(<<"-", "0">>),
     Lit(<<"1">>),
     Lit(<<"-", "1">>),
     Lit(<<"1", "2">>),
     Lit(<<"-", "1", "2">>),
     Lit(<<"5", "7", "6", "4", "6", "0", "7", "5", "2", "3", "0", "3", "4", "2", "3", "4", "8", "7">>),
     Lit(<<"5", "7", "6", "4", "6", "0", "7", "5", "2", "3", "0", "3", "4", "2", "3", "4", "8", "8">>),
     Lit(<<"-", "5", "7", "6", "4", "6", "0", "7", "5", "2", "3", "0", "3", "4", "2", "3", "4", "8", "8">>),
     Lit(<<"-", "5", "7", "6", "4", "6", "0", "7", "5", "2", "3", "0", "3", "4", "2", "3", "4", "8", "9">>),
     Lit(<<"1", "1", "5", "2", "9", "2", "1", "5", "0", "4", "6", "0", "6", "8", "4", "6", "9", "7", "5">>),
     Lit(<<"1", "1", "5", "2", "9", "2", "1", "5", "0", "4", "6", "0", "6", "8", "4", "6", "9", "7", "6">>),
     Lit(<<"9", "2", "2", "3", "3", "7", "2", "0", "3", "6", "8", "5", "4", "7", "7", "5", "8", "0", "7">>),
     Lit(<<"9", "2", "2", "3", "3", "7", "2", "0", "3", "6", "8", "5", "4", "7", "7", "5", "8", "0", "8">>),
     Lit(<<"-", "9", "2", "2", "3", "3", "7", "2", "0", "3", "6", "8", "5", "4", "7", "7", "5", "8", "0", "8">>)}

\* What a buffer may hold from index len on: nothing (the NUL of a C string) or
\* more bytes.
Tails == {<<>>, Lit(<<"3">>), Lit(<<"x">>), Lit(<<".", "5">>), Lit(<<"e", "1">>), Lit(<<" ">>)}

NumCalls ==
    {Call(v \o t, Len(v), NullOpts) : v \in NumTexts, t \in Tails}
      \cup {Call(Lit(<<"[">>) \o v \o Lit(<<"]">>) \o t, Len(v) + 1, NullOpts) :
              v \in {Lit(<<"1">>), Lit(<<"1", "2">>)}, t \in Tails}

\* What a call leaves: the pointer returned, the document behind it (whatever
\* its address), the thread's error record.
Outcome == [result |-> result, err |-> err, doc |-> [doc EXCEPT !.id = 0]]

\* The caller's second json_parse_opts(buf2, len, opts), buf2 holding the same
\* first len bytes as the buffer of the first call and other bytes after them.
json_parse_opts_again ==
    /\ pc = "done"
    /\ round = 1
    /\ outs = <<>>
    /\ prior = <<>>
    /\ prior' = <<Outcome>>
    /\ \E t \in Tails, fail \in FailChoices :
         /\ SubSeq(input, 1, len) \o t # input
         /\ ParseCall(SubSeq(input, 1, len) \o t, len, opts, round + 1, fail)
    /\ UNCHANGED <<docs, outs, mayfail, kin, kout, LibVars, got>>

NextNum == Next \/ json_parse_opts_again

InitNum ==
    \E c \in NumCalls \cup Seeds \cup {Text(v) : v \in Base} : Start(c, FALSE, NoError)

SpecNum == InitNum /\ [][NextNum]_vars

(***************************************************************************)
(* Nesting.  SpecDepth calls json_parse_opts with max_depth from 0 to      *)
(* MaxDepthOpt on texts that nest arrays and objects, in any mix, as first *)
(* or later element or member, up to MaxDepthNest + 1 deep.                *)
(***************************************************************************)
MaxDepthNest == 3

MaxDepthOpt == 2

DepthCores == {Lit(<<"1">>), Lit(<<"\"", "a", "\"">>), Lit(<<"[", "]">>), Lit(<<"{", "}">>)}

RECURSIVE DepthTexts(_)
DepthTexts(n) ==
    IF n = 0 THEN DepthCores
    ELSE LET W == DepthTexts(n - 1)
         IN W \cup {Lit(<<"[">>) \o v \o Lit(<<"]">>) : v \in W}
              \cup {Lit(<<"[", "1", ",">>) \o v \o Lit(<<",", "1", "]">>) : v \in W}
              \cup {Lit(<<"{", "\"", "a", "\"", ":">>) \o v \o Lit(<<"}">>) : v \in W}
              \cup {Lit(<<"{", "\"", "a", "\"", ":", "1", ",", " ", "\"", "b", "\"", ":">>)
                      \o v \o Lit(<<"}">>) : v \in W}

DepthTextSet == DepthTexts(MaxDepthNest)

DepthCalls ==
    {Call(v, Len(v), [flags |-> JSON_PARSE_DEFAULT, max_depth |-> D]) :
        v \in DepthTextSet, D \in 0..MaxDepthOpt}

InitDepth == \E c \in DepthCalls \cup Seeds : Start(c, FALSE, NoError)

SpecDepth == InitDepth /\ [][Next]_vars

(***************************************************************************)
(* The parse_int kernels (parse.c, arm64/simd_arm64.c).  A kernel returns  *)
(* [value, consumed, ub]: ub tells that result * 10 + digit overflowed the *)
(* int64_t, which is undefined.                                            *)
(***************************************************************************)
\* while (i < len && str[i] >= '0' && str[i] <= '9') i++, counted from `from`
KDigitCount(str, from, n) == Min(DigitRun(str, from), Max(n - from, 0))

\* result = result * 10 + (str[i] - '0') over the n digits at from
KDecode(str, from, n) ==
    LET m == AccDec(DigitsAt(str, from, n), 1, [w |-> WZero, ovf |-> FALSE])
    IN [w |-> m.w, ub |-> m.ovf \/ WIsNeg(m.w)]

parse_int_scalar(str, n) ==
    LET negative == 0 < n /\ At(str, 0) = Ch["-"]
        i0 == IF negative THEN 1 ELSE 0
        i == i0 + KDigitCount(str, i0, n)
        res == KDecode(str, i0, i - i0)
    IN [value |-> IF negative THEN WNeg(res.w) ELSE res.w,
        consumed |-> i, ub |-> res.ub]

parse_int_neon(str, n) ==
    IF n = 0 THEN [value |-> WZero, consumed |-> 0, ub |-> FALSE]
    ELSE LET negative == At(str, 0) = Ch["-"]
             p == IF negative THEN 1 ELSE 0
             \* if (digit_count >= 19) break;
             digit_count == Min(KDigitCount(str, p, n), 19)
             res == KDecode(str, p, digit_count)
         IN IF digit_count = 0 THEN [value |-> WZero, consumed |-> 0, ub |-> FALSE]
            ELSE [value |-> IF negative THEN WNeg(res.w) ELSE res.w,
                  consumed |-> p + digit_count, ub |-> res.ub]

parse_int_sve(str, n) == parse_int_neon(str, n)

parse_int_sve2(str, n) == parse_int_sve(str, n)

Variants == {"scalar", "neon", "sve", "sve2"}

\* What a kernel call hands back to its caller.  After an overflow the build may
\* have wrapped the value around or produced anything else.
KernelReturns(name, r) ==
    /\ \E v \in (IF r.ub THEN {r.value, WZero, INT64_MAX_W, INT64_MIN_W} ELSE {r.value}) :
         kout' = [kout EXCEPT ![name] = <<[value |-> v, consumed |-> r.consumed]>>]
    /\ UNCHANGED <<input, len, opts, pos, line, col, depth, doc, stack, pc, ret, err,
                   result, freed, span, members, round, docs, outs, prior, mayfail, oomed,
                   kin, LibVars, got>>

call_parse_int_scalar ==
    /\ kout["scalar"] = <<>>
    /\ KernelReturns("scalar", parse_int_scalar(kin.str, kin.len))

call_parse_int_neon ==
    /\ kout["neon"] = <<>>
    /\ KernelReturns("neon", parse_int_neon(kin.str, kin.len))

call_parse_int_sve ==
    /\ kout["sve"] = <<>>
    /\ KernelReturns("sve", parse_int_sve(kin.str, kin.len))

call_parse_int_sve2 ==
    /\ kout["sve2"] = <<>>
    /\ KernelReturns("sve2", parse_int_sve2(kin.str, kin.len))

NextKernel ==
    \/ call_parse_int_scalar
    \/ call_parse_int_neon
    \/ call_parse_int_sve
    \/ call_parse_int_sve2

\* Byte slices: an optional '-', up to MaxZeros zeros, then nothing, digits or
\* other bytes; the whole of the bytes or all but the last.
MaxZeros == 19

KernelTails ==
    {<<>>, Lit(<<"7">>), Lit(<<"1", "2">>), Lit(<<"x">>), Lit(<<"7", "x">>), Lit(<<"-">>)}

KernelZeros(z) == [k \in 1..z |-> Ch["0"]]

KernelSlices ==
    {[str |-> sign \o KernelZeros(z) \o t, len |-> Len(sign) + z + Len(t) - cut] :
        sign \in {<<>>, Lit(<<"-">>)}, z \in 0..MaxZeros, t \in KernelTails, cut \in {0, 1}}

InitKernel ==
    /\ Idle(Text(<<>>), FALSE, NoError)
    /\ LibReady
    /\ kin \in {k \in KernelSlices : k.len >= 0}
    /\ kout = [v \in Variants |-> <<>>]

SpecKernel == InitKernel /\ [][NextKernel]_vars

(***************************************************************************)
(* Growth of the node arena.  A text needs more than ArenaFloor bytes of   *)
(* nodes before arena_alloc_val grows the arena; the shortest such text is *)
(* an array of small numbers.  SpecArena starts json_parse_opts on such an *)
(* array at the point where the nodes parsed so far fill the arena, with   *)
(* an allocator that may fail, and from the start on short texts.          *)
(***************************************************************************)
\* "[1,1,...,1]" with n elements
OnesArray(n) ==
    [i \in 1..(2 * n + 1) |->
        IF i = 1 THEN Ch["["] ELSE IF i = 2 * n + 1 THEN Ch["]"]
        ELSE IF i % 2 = 0 THEN Ch["1"] ELSE Ch[","]]

\* The document parse_json creates for a text of n bytes.
FreshDoc(n) == arena_create(Max(((n \div 4) + 1) * SizeofVal, ArenaFloor), 1, FALSE)

\* How many nodes the arena of that document holds before it grows.
Fit(n) == FreshDoc(n).arena_size \div SizeofVal

\* The parser's state in json_parse_opts(OnesArray(n), 2n + 1, NULL) when
\* parse_array has parsed k >= 1 elements and the comma after them and calls
\* parse_value for the next one.
MidArray(n, k) ==
    [input |-> OnesArray(n), len |-> 2 * n + 1, opts |-> NullOpts,
     pos |-> 2 * k + 1, line |-> 1, col |-> 2 * k + 2, depth |-> 1,
     doc |-> [FreshDoc(2 * n + 1) EXCEPT
                !.arena = [i \in 1..(k + 1) |->
                             IF i = 1
                             THEN [val_set_type(ZeroVal, JSON_ARRAY) EXCEPT
                                     !.w2 = W2Child(Ptr(1, 2))]
                             ELSE [val_set_payload(val_set_type(ZeroVal, JSON_INT), W64(1))
                                     EXCEPT !.next = IF i <= k THEN Ptr(1, i + 1) ELSE NULL]],
                !.arena_used = (k + 1) * SizeofVal,
                !.value_count = k + 1],
     stack |-> <<[Frame("array", Ptr(1, 1), NULL, <<>>, 0) EXCEPT
                    !.first = Ptr(1, 2), !.prev = Ptr(1, k + 1)]>>,
     ret |-> Ptr(1, k + 1),
     span |-> [from |-> 2 * k - 1, to |-> 2 * k]]

\* The state m of a first call in progress.
InProgress(m, mf, e) ==
    /\ input = m.input
    /\ len = m.len
    /\ opts = m.opts
    /\ pos = m.pos /\ line = m.line /\ col = m.col /\ depth = m.depth
    /\ doc = m.doc
    /\ stack = m.stack
    /\ pc = "value"
    /\ ret = m.ret
    /\ err = e
    /\ result = "none"
    /\ freed = 0
    /\ span = m.span
    /\ members = {}
    /\ round = 1
    /\ docs = <<>>
    /\ outs = <<>>
    /\ prior = <<>>
    /\ mayfail = mf
    /\ oomed = FALSE
    /\ got = <<>>
    /\ kin = <<>>
    /\ kout = <<>>
    /\ LibReady

\* The number of elements after those that fit the arena as parse_json sized it.
MaxSpill == 1

\* The shortest array that outgrows its arena by MaxSpill elements (the array
\* node takes one of the places).
SpillArrayLen == Fit(1) - 1 + MaxSpill

\* What the error record may hold from an earlier call.
PreviousError == set_error(JSON_ERROR_SYNTAX, 3, 1, 4, "Unexpected character")

\* The next store of parse_array or parse_object goes through a pointer into an
\* arena block that arena_grow has freed.
StaleStore ==
    /\ pc = "ret"
    /\ stack # <<>>
    /\ ret # NULL
    /\ \/ ~Live(doc, IF Top.first = NULL THEN Top.node ELSE Top.prev)
       \/ Top.kind = "object" /\ ~Live(doc, Top.key)

\* A store into freed memory is undefined: either it lands in the freed block
\* and is lost (parse_array_loop and parse_object_loop go on), or the process
\* faults.
store_after_free ==
    /\ StaleStore
    /\ pc' = "fault"
    /\ UNCHANGED <<input, len, opts, pos, line, col, depth, doc, stack, ret, err,
                   result, freed, span, members, round, docs, outs, prior, mayfail, oomed,
                   kin, kout, LibVars, got>>

\* json_stringify on a document whose links point into a freed block reads
\* freed memory: whatever it returns, or a fault.
json_stringify_after_free ==
    /\ pc = "done"
    /\ result = "doc"
    /\ ~Sound(doc)
    /\ \/ pc' = "fault" /\ UNCHANGED outs
       \/ /\ Len(outs) < round
          /\ \E s \in {<<>>, Lit(<<"[", "]">>)} : outs' = Append(outs, [null |-> FALSE, s |-> s])
          /\ UNCHANGED pc
    /\ UNCHANGED <<input, len, opts, pos, line, col, depth, doc, stack, ret, err,
                   result, freed, span, members, round, docs, prior, mayfail, oomed,
                   kin, kout, LibVars, got>>

NextArena == Next \/ store_after_free \/ json_stringify_after_free

InitArena ==
    \/ \E e \in {NoError, PreviousError} :
         InProgress(MidArray(SpillArrayLen, Fit(2 * SpillArrayLen + 1) - 1), TRUE, e)
    \/ \E c \in Seeds \cup {Text(v) : v \in Arrays \cup Objects \cup {OnesArray(3)}},
          e \in {NoError, PreviousError} :
         Start(c, TRUE, e)

SpecArena == InitArena /\ [][NextArena]_vars

(***************************************************************************)
(* find_structural kernels (src/src/parse.c, src/src/arm64/simd_arm64.c).  *)
(* kin holds the buffer str, the slice length len, the vector extension    *)
(* the library was compiled for (build: __ARM_FEATURE_SVE and              *)
(* __ARM_FEATURE_SVE2 select the bodies of the sve and sve2 variants) and  *)
(* the vector length vl in bytes that svcntb() returns.  A 64-bit mask is  *)
(* the set of its set bits.                                                *)
(***************************************************************************)
\* Every variable but kin and kout.
ParserVars ==
    <<input, len, opts, pos, line, col, depth, doc, stack, pc, ret, err,
      result, freed, span, members, round, docs, outs, prior, mayfail, oomed, LibVars, got>>

\* c == '{' || c == '}' || c == '[' || c == ']' || c == ':' || c == ',' || c == '"'
IsStructural(c) ==
    c \in {Ch["{"], Ch["}"], Ch["["], Ch["]"], Ch[":"], Ch[","], Ch["\""]}

\* m |= (1ULL << i) for every structural byte among the first count bytes
StructuralBits(str, count) == {i \in 0..(count - 1) : IsStructural(At(str, i))}

find_structural_scalar(str, n) ==
    LET count == IF n < 64 THEN n ELSE 64
    IN [count |-> count, mask |-> StructuralBits(str, count), oob |-> FALSE]

\* The vector compare's result is never used; final_mask comes from the loop
\* over count bytes.  vld1q_u8 loads 16 bytes whatever len is: oob tells that
\* the load went past the end of the buffer.
find_structural_neon(str, n) ==
    IF n = 0 THEN [count |-> 0, mask |-> {}, oob |-> FALSE]
    ELSE LET count == IF n < 16 THEN n ELSE 16
         IN [count |-> count, mask |-> StructuralBits(str, count), oob |-> Len(str) < 16]

\* One pass of the SVE loop per vl bytes: the lanes pos .. count - 1 are active.
RECURSIVE SveStructuralLoop(_, _, _, _, _)
SveStructuralLoop(str, count, vl, p, m) ==
    IF p < count
    THEN SveStructuralLoop(str, count, vl, p + vl,
             m \cup {p + i : i \in {j \in 0..(vl - 1) : p + j < count /\ IsStructural(At(str, p + j))}})
    ELSE m

find_structural_sve(k) ==
    IF k.build \in {"sve", "sve2"}
    THEN IF k.len = 0 THEN [count |-> 0, mask |-> {}, oob |-> FALSE]
         ELSE LET count == IF k.len < 64 THEN k.len ELSE 64
              IN [count |-> count, mask |-> SveStructuralLoop(k.str, count, k.vl, 0, {}),
                  oob |-> FALSE]
    ELSE find_structural_neon(k.str, k.len)

find_structural_sve2(k) ==
    IF k.build = "sve2" THEN find_structural_sve(k) ELSE find_structural_neon(k.str, k.len)

\* What a find_structural call hands back: the count and *mask, or a fault when
\* the load outside the buffer touched unmapped memory.
StructuralReturns(name, r) ==
    /\ \E fault \in (IF r.oob THEN {FALSE, TRUE} ELSE {FALSE}) :
         kout' = [kout EXCEPT ![name] = <<[count |-> r.count, mask |-> r.mask, fault |-> fault]>>]
    /\ UNCHANGED <<ParserVars, kin>>

call_find_structural_scalar ==
    /\ kout["scalar"] = <<>>
    /\ StructuralReturns("scalar", find_structural_scalar(kin.str, kin.len))

call_find_structural_neon ==
    /\ kout["neon"] = <<>>
    /\ StructuralReturns("neon", find_structural_neon(kin.str, kin.len))

call_find_structural_sve ==
    /\ kout["sve"] = <<>>
    /\ StructuralReturns("sve", find_structural_sve(kin))

call_find_structural_sve2 ==
    /\ kout["sve2"] = <<>>
    /\ StructuralReturns("sve2", find_structural_sve2(kin))

NextStructural ==
    \/ call_find_structural_scalar
    \/ call_find_structural_neon
    \/ call_find_structural_sve
    \/ call_find_structural_sve2

\* The compile-time choices and the vector lengths of the machine.
Builds == {"neon", "sve", "sve2"}

VectorLengths == {16, 32}

\* The longest buffer.
MaxStructLen == 66

StructLens == {0, 1, 2, 15, 16, 17} \cup 63..MaxStructLen

Structurals == Lit(<<"{", "}", "[", "]", ":", ",", "\"">>)

\* Buffers of n bytes: no structural byte, only structural bytes, the bytes next
\* to the structural ones in ASCII, and one structural byte at index at.
StructBuffers(n) ==
    {[i \in 1..n |-> Ch["a"]],
     [i \in 1..n |-> Structurals[((i - 1) % 7) + 1]],
     [i \in 1..n |-> IF i % 3 = 0 THEN Ch["|"] ELSE IF i % 3 = 1 THEN Ch["\\"] ELSE Ch[";"]]}
      \cup {[i \in 1..n |-> IF i = at + 1 THEN Ch[","] ELSE Ch[" "]] :
              at \in {0, 15, 16, 63, 64} \cap 0..(n - 1)}

StructSlices ==
    UNION {{[str |-> b, len |-> n - cut, build |-> bd, vl |-> vl] :
               cut \in {0, 1}, bd \in Builds, vl \in VectorLengths, b \in StructBuffers(n)} :
             n \in StructLens}

InitStructural ==
    /\ Idle(Text(<<>>), FALSE, NoError)
    /\ LibReady
    /\ kin \in {k \in StructSlices : k.len >= 0}
    /\ kout = [v \in Variants |-> <<>>]

SpecStructural == InitStructural /\ [][NextStructural]_vars

(***************************************************************************)
(* scan_string kernels (src/src/parse.c, src/src/arm64/simd_arm64.c).      *)
(* Bytes are unsigned, 0 .. 255.                                           *)
(***************************************************************************)
\* c == '"' || c == '\\' || c < 0x20 on an unsigned char
IsStop(c) == c = Ch["\""] \/ c = Ch["\\"] \/ c < 32

\* The first index from `from` below n that holds a stop byte, n if none.
ScanFrom(str, from, n) ==
    IF \E i \in from..(n - 1) : IsStop(At(str, i))
    THEN CHOOSE i \in from..(n - 1) :
            IsStop(At(str, i)) /\ \A j \in from..(i - 1) : ~IsStop(At(str, j))
    ELSE n

scan_string_scalar(str, n) == ScanFrom(str, 0, n)

\* vcltq_u8 on a lane read as a signed byte
vcltq_s8(a, b) == (IF a >= 128 THEN a - 256 ELSE a) < (IF b >= 128 THEN b - 256 ELSE b)

\* vcltq_u8: unsigned compare of one lane
vcltq_u8(a, b) == a < b

\* any_match of one lane: vceqq_u8 against '"' and '\\', vcltq_u8 against 0x20
NeonLaneMatch(c) == c = Ch["\""] \/ c = Ch["\\"] \/ vcltq_u8(c, 32)

\* while (pos + 16 <= len): low is lanes 0..7, high is lanes 8..15; then the
\* byte loop over what remains.
RECURSIVE NeonScanLoop(_, _, _)
NeonScanLoop(str, n, p) ==
    IF p + 16 <= n
    THEN LET low == {i \in 0..7 : NeonLaneMatch(At(str, p + i))}
             high == {i \in 0..7 : NeonLaneMatch(At(str, p + 8 + i))}
         IN IF low # {} THEN p + CHOOSE i \in low : \A j \in low : i <= j
            ELSE IF high # {} THEN p + 8 + CHOOSE i \in high : \A j \in high : i <= j
            ELSE NeonScanLoop(str, n, p + 16)
    ELSE ScanFrom(str, p, n)

scan_string_neon(str, n) == IF n = 0 THEN 0 ELSE NeonScanLoop(str, n, 0)

\* while (pos < len): the lanes pos .. len - 1 of one vector are active;
\* svbrkb_b_z and svcntp_b8 count the active lanes before the first match.
RECURSIVE SveScanLoop(_, _, _, _)
SveScanLoop(str, n, vl, p) ==
    IF p < n
    THEN LET active == {i \in 0..(vl - 1) : p + i < n}
             any_match == {i \in active :
                             At(str, p + i) = Ch["\""] \/ At(str, p + i) = Ch["\\"]
                               \/ At(str, p + i) < 32}
         IN IF any_match # {}
            THEN p + Cardinality({i \in active : \A j \in any_match : i < j})
            ELSE SveScanLoop(str, n, vl, p + vl)
    ELSE n

scan_string_sve(k) ==
    IF k.build \in {"sve", "sve2"}
    THEN IF k.len = 0 THEN 0 ELSE SveScanLoop(k.str, k.len, k.vl, 0)
    ELSE scan_string_neon(k.str, k.len)

scan_string_sve2(k) ==
    IF k.build = "sve2" THEN scan_string_sve(k) ELSE scan_string_neon(k.str, k.len)

ScanReturns(name, i) ==
    /\ kout' = [kout EXCEPT ![name] = <<[index |-> i]>>]
    /\ UNCHANGED <<ParserVars, kin>>

call_scan_string_scalar ==
    /\ kout["scalar"] = <<>>
    /\ ScanReturns("scalar", scan_string_scalar(kin.str, kin.len))

call_scan_string_neon ==
    /\ kout["neon"] = <<>>
    /\ ScanReturns("neon", scan_string_neon(kin.str, kin.len))

call_scan_string_sve ==
    /\ kout["sve"] = <<>>
    /\ ScanReturns("sve", scan_string_sve(kin))

call_scan_string_sve2 ==
    /\ kout["sve2"] = <<>>
    /\ ScanReturns("sve2", scan_string_sve2(kin))

NextScan ==
    \/ call_scan_string_scalar
    \/ call_scan_string_neon
    \/ call_scan_string_sve
    \/ call_scan_string_sve2

\* The longest buffer.
MaxScanLen == 33

ScanLens == {0, 1, 15, 16, 17} \cup 31..MaxScanLen

\* Buffers of n bytes: plain bytes (ASCII or >= 0x80) with no stop byte, with
\* one stop byte, or with one stop byte and a quote at the end.
ScanBuffers(n) ==
    {[i \in 1..n |-> plain] : plain \in {Ch["a"], 200}}
      \cup {[i \in 1..n |-> IF i = at + 1 THEN stop
                            ELSE IF i = n /\ last THEN Ch["\""] ELSE plain] :
              plain \in {Ch["a"], 200}, stop \in {Ch["\""], Ch["\\"], 31},
              at \in {0, 7, 8, 15, 16, 17, n - 1} \cap 0..(n - 1), last \in BOOLEAN}

ScanSlices ==
    UNION {{[str |-> b, len |-> n - cut, build |-> bd, vl |-> vl] :
               cut \in {0, 1}, bd \in Builds, vl \in VectorLengths, b \in ScanBuffers(n)} :
             n \in ScanLens}

InitScan ==
    /\ Idle(Text(<<>>), FALSE, NoError)
    /\ LibReady
    /\ kin \in {k \in ScanSlices : k.len >= 0}
    /\ kout = [v \in Variants |-> <<>>]

SpecScan == InitScan /\ [][NextScan]_vars

(***************************************************************************)
(* json_init run by several threads.  The globals are plain objects        *)
(* written without synchronisation, so a thread's stores reach memory in   *)
(* any order: threads[t].buf holds the stores of t that other threads do   *)
(* not see yet.  threads[t].saw is what t read of the globals when it last *)
(* found g_initialized set or finished its own json_init.                  *)
(***************************************************************************)
\* Every variable but the library's globals and the other threads.
CallerVars ==
    <<input, len, opts, pos, line, col, depth, doc, stack, pc, ret, err,
      result, freed, span, members, round, docs, outs, prior, mayfail, oomed, kin, kout,
      got>>

\* The value of a global in memory.
InMemory(loc) ==
    IF loc = "g_initialized" THEN g_initialized
    ELSE IF loc = "g_cpu_features" THEN g_cpu_features
    ELSE g_json_ops[loc]

\* What thread t reads from a global: its own pending store, else memory.
Load(t, loc) ==
    IF threads[t].buf[loc] # <<>> THEN threads[t].buf[loc][1] ELSE InMemory(loc)

\* The globals json_init writes.
Globals == {"g_initialized", "g_cpu_features"} \cup DOMAIN NoOps

\* No store pending.
Drained == [loc \in Globals |-> <<>>]

\* The kernel table and the feature mask as thread t reads them.
Observed(t) ==
    [cpu_features |-> Load(t, "g_cpu_features"),
     ops |-> [f \in DOMAIN NoOps |-> Load(t, f)]]

\* The number of calls each thread makes.
CallsPerThread == 2

\* if (g_initialized) return; in json_init, and if (!g_initialized) json_init();
\* in json_parse_opts and json_get_cpu_features, which then use the globals.
json_init_check ==
    \E t \in DOMAIN threads :
        /\ threads[t].pc = "idle"
        /\ threads[t].calls < CallsPerThread
        /\ IF Load(t, "g_initialized")
           THEN threads' = [threads EXCEPT ![t].calls = @ + 1, ![t].saw = <<Observed(t)>>]
           ELSE threads' = [threads EXCEPT ![t].calls = @ + 1, ![t].pc = "detect"]
        /\ UNCHANGED <<CallerVars, build, g_initialized, g_cpu_features, g_json_ops>>

\* g_cpu_features = cpu_detect_features();
json_init_detect ==
    \E t \in DOMAIN threads :
        /\ threads[t].pc = "detect"
        /\ threads' = [threads EXCEPT
                         ![t].pc = "select",
                         ![t].buf["g_cpu_features"] = <<cpu_detect_features(build)>>]
        /\ UNCHANGED <<CallerVars, build, g_initialized, g_cpu_features, g_json_ops>>

\* The stores to g_json_ops.scan_string, .find_structural, .parse_int and
\* .parse_float.
json_init_select ==
    \E t \in DOMAIN threads :
        /\ threads[t].pc = "select"
        /\ LET ops == OpsOf(SelectVariant(build, Load(t, "g_cpu_features")))
           IN threads' = [threads EXCEPT
                            ![t].pc = "publish",
                            ![t].buf = [loc \in Globals |->
                                          IF loc \in DOMAIN ops THEN <<ops[loc]>> ELSE @[loc]]]
        /\ UNCHANGED <<CallerVars, build, g_initialized, g_cpu_features, g_json_ops>>

\* g_initialized = true; and the return of json_init
json_init_publish ==
    \E t \in DOMAIN threads :
        /\ threads[t].pc = "publish"
        /\ threads' = [threads EXCEPT
                         ![t].pc = "idle",
                         ![t].buf["g_initialized"] = <<TRUE>>,
                         ![t].saw = <<Observed(t)>>]
        /\ UNCHANGED <<CallerVars, build, g_initialized, g_cpu_features, g_json_ops>>

\* One pending store of thread t reaches memory.
store_reaches_memory ==
    \E t \in DOMAIN threads :
        /\ \E loc \in {l \in Globals : threads[t].buf[l] # <<>>} :
             /\ threads' = [threads EXCEPT ![t].buf[loc] = <<>>]
             /\ g_initialized' = IF loc = "g_initialized" THEN threads[t].buf[loc][1]
                                  ELSE g_initialized
             /\ g_cpu_features' = IF loc = "g_cpu_features" THEN threads[t].buf[loc][1]
                                   ELSE g_cpu_features
             /\ g_json_ops' = IF loc \in DOMAIN NoOps
                              THEN [g_json_ops EXCEPT ![loc] = threads[t].buf[loc][1]]
                              ELSE g_json_ops
        /\ UNCHANGED <<CallerVars, build>>

NextInit ==
    \/ json_init_check
    \/ json_init_detect
    \/ json_init_select
    \/ json_init_publish
    \/ store_reaches_memory

\* Every way to compile the library and every mask the probe can report.
AllBuilds ==
    {[arch |-> "x86_64", USE_SCALAR_ONLY |-> so, NO_AVX512 |-> na, NO_SVE |-> FALSE, cpu |-> c] :
        so \in BOOLEAN, na \in BOOLEAN, c \in SUBSET {"SSE42", "AVX2", "AVX512F", "AVX512BW"}}
      \cup {[arch |-> "arm64", USE_SCALAR_ONLY |-> so, NO_AVX512 |-> FALSE, NO_SVE |-> ns, cpu |-> c] :
              so \in BOOLEAN, ns \in BOOLEAN, c \in SUBSET {"SVE", "SVE2"}}
      \cup {[arch |-> "other", USE_SCALAR_ONLY |-> so, NO_AVX512 |-> FALSE, NO_SVE |-> FALSE, cpu |-> {}] :
              so \in BOOLEAN}

\* A thread that has called nothing yet.
NewThread == [pc |-> "idle", buf |-> Drained, saw |-> <<>>, calls |-> 0,
              err |-> NoError, last |-> NoError]

\* The process after the library is loaded: the globals are zero.
Loaded(b, ts) ==
    /\ Idle(Text(<<>>), FALSE, NoError)
    /\ kin = <<>>
    /\ kout = <<>>
    /\ build = b
    /\ g_initialized = FALSE
    /\ g_cpu_features = {}
    /\ g_json_ops = NoOps
    /\ threads = [t \in ts |-> NewThread]

\* One thread, every build.
InitDispatch == \E b \in AllBuilds : Loaded(b, {"t1"})

SpecDispatch == InitDispatch /\ [][NextInit]_vars

\* Two threads on an ARM64 or an x86-64 machine.
RaceBuilds ==
    {b \in AllBuilds : ~b.USE_SCALAR_ONLY /\ ~b.NO_SVE /\ ~b.NO_AVX512
                         /\ b.cpu \in {{"SVE", "SVE2"}, {"SSE42", "AVX2"}}}

InitRace == \E b \in RaceBuilds : Loaded(b, {"t1", "t2"})

SpecRace == InitRace /\ [][NextInit]_vars

(***************************************************************************)
(* The error record (src/src/internal.h, src/src/json_asm.c).              *)
(* g_last_error is _Thread_local: err is the copy of the calling thread,   *)
(* threads[t].err the copy of thread t, and threads[t].last what           *)
(* json_get_error last returned to t.                                      *)
(***************************************************************************)
\* A second thread starts; its g_last_error is zero-initialised.
thread_start ==
    /\ threads = <<>>
    /\ threads' = [t \in {"t2"} |-> NewThread]
    /\ UNCHANGED <<CallerVars, build, g_initialized, g_cpu_features, g_json_ops>>

\* The failures of json_parse_opts before the parser runs: json = NULL or
\* len = 0, and arena_create returning NULL in parse_json.
EarlyFailures ==
    {set_error(JSON_ERROR_SYNTAX, 0, 1, 1, "Empty input")}
      \cup (IF mayfail
            THEN {set_error(JSON_ERROR_MEMORY, 0, 0, 0, "Failed to allocate document")}
            ELSE {})

\* json_parse_opts in thread t, failing before the parser runs
thread_json_parse_opts ==
    \E t \in DOMAIN threads :
        /\ threads[t].calls < CallsPerThread
        /\ \E e \in EarlyFailures :
             threads' = [threads EXCEPT ![t].calls = @ + 1, ![t].err = e]
        /\ UNCHANGED <<CallerVars, build, g_initialized, g_cpu_features, g_json_ops>>

\* json_get_error() in thread t
thread_json_get_error ==
    \E t \in DOMAIN threads :
        /\ threads[t].last # threads[t].err
        /\ threads' = [threads EXCEPT ![t].last = threads[t].err]
        /\ UNCHANGED <<CallerVars, build, g_initialized, g_cpu_features, g_json_ops>>

NextErr ==
    \/ NextArena
    \/ thread_start
    \/ thread_json_parse_opts
    \/ thread_json_get_error

SpecErr == InitArena /\ [][NextErr]_vars

(***************************************************************************)
(* Queries of a value (src/src/json_asm.c).  The caller holds the document *)
(* its parse returned and calls every accessor on one value reference: a   *)
(* node of the document or NULL.                                           *)
(***************************************************************************)
\* The value references a caller of the document can hold.
Refs(d) == {NULL} \cup {Ptr(d.agen, i) : i \in 1..Len(d.arena)}

\* The keys and indices the caller asks for.
QueryKeys == {[null |-> TRUE, s |-> <<>>], [null |-> FALSE, s |-> Lit(<<"a">>)]}

MaxIndex == 1

\* What the accessors return for the value reference p, whose type tag is tag
\* (-1 for NULL); bytes is what the caller reads at str over str_len bytes.
\* json_clone returns
\* NULL when json_stringify does and calls json_parse otherwise.
Answers(d, p, key, index) ==
    [val |-> p,
     tag |-> IF p = NULL THEN 0 - 1 ELSE val_get_type(Val(d, p)),
     type |-> json_get_type(d, p),
     bool |-> json_get_bool(d, p),
     int |-> json_get_int(d, p),
     uint |-> json_get_uint(d, p),
     num |-> json_get_num(d, p),
     str |-> json_get_str(d, p),
     str_len |-> json_get_str_len(d, p),
     bytes |-> StrBytes(d, p),
     obj_get |-> json_obj_get(d, p, key),
     obj_first |-> json_obj_first(d, p),
     obj_size |-> json_obj_size(d, p),
     arr_get |-> json_arr_get(d, p, index),
     arr_first |-> json_arr_first(d, p),
     arr_size |-> json_arr_size(d, p),
     stringify |-> json_stringify_opts(d, p, NoStringifyOpts),
     clone |-> IF json_stringify_opts(d, p, NoStringifyOpts).null THEN "NULL"
               ELSE "json_parse",
     equals |-> json_equals(d, p, d, p)]

\* The accessors called on one value reference; they write nothing.
json_query ==
    /\ pc = "done"
    /\ result = "doc"
    /\ Sound(doc)
    /\ \E p \in Refs(doc), key \in QueryKeys, index \in 0..MaxIndex :
          got' = <<Answers(doc, p, key, index)>>
    /\ UNCHANGED <<input, len, opts, pos, line, col, depth, doc, stack, pc, ret, err,
                   result, freed, span, members, round, docs, outs, prior, mayfail, oomed,
                   kin, kout, LibVars>>

NextQuery == Next \/ json_query

\* The caller's parses: every value of Base, alone and inside an array.
InitQuery ==
    \E c \in {Text(v) : v \in Base} \cup {Text(Lit(<<"[">>) \o v \o Lit(<<"]">>)) : v \in Base}
                \cup Seeds :
        Start(c, FALSE, NoError)

SpecQuery == InitQuery /\ [][NextQuery]_vars

(***************************************************************************)
(* Number tokens.  SpecGrammar parses texts that begin with a number token *)
(* put together from a sign, an integer part, a fraction and an exponent,  *)
(* well-formed or not, and followed by other bytes or by nothing.          *)
(***************************************************************************)
SignParts == {<<>>, Lit(<<"-">>)}

IntParts == {<<>>, Lit(<<"0">>), Lit(<<"7">>), Lit(<<"1", "0">>), Lit(<<"0", "1">>)}

FracParts == {<<>>, Lit(<<".">>), Lit(<<".", "5">>), Lit(<<".", "0", "5">>)}

ExpParts ==
    {<<>>, Lit(<<"e">>), Lit(<<"e", "5">>), Lit(<<"E", "+", "5">>), Lit(<<"e", "-">>),
     Lit(<<"E", "-", "2">>), Lit(<<"e", "9", "9", "9">>), Lit(<<"e", "-", "9", "9", "9">>)}

TokenTails == {<<>>, Lit(<<"x">>), Lit(<<" ">>), Lit(<<".">>)}

NumberTexts ==
    {sg \o ip \o fp \o ep \o tl :
        sg \in SignParts, ip \in IntParts, fp \in FracParts, ep \in ExpParts,
        tl \in TokenTails} \ {<<>>}

InitGrammar ==
    \E c \in {Text(v) : v \in NumberTexts \cup Scalars} \cup Seeds : Start(c, FALSE, NoError)

SpecGrammar == InitGrammar /\ [][Next]_vars

(***************************************************************************)
(* String values.  SpecString parses string literals of decoded length 0   *)
(* to MaxPlain without escapes and literals with escapes, each as the root,*)
(* as an array element and as the value of an object member, and queries   *)
(* the nodes of the document.  A case is [lit, bytes, esc]: the characters *)
(* between the quotes, the bytes they stand for, whether an escape occurs. *)
(***************************************************************************)
MaxPlain == 9

Alphabet == Lit(<<"a", "b", "c", "d", "e", "f", "g", "h", "i", "j", "k", "l">>)

PlainCases ==
    {[lit |-> SubSeq(Alphabet, 1, n), bytes |-> SubSeq(Alphabet, 1, n), esc |-> FALSE] :
        n \in 0..MaxPlain}
      \cup {[lit |-> <<195, 169>> \o SubSeq(Alphabet, 1, n),
             bytes |-> <<195, 169>> \o SubSeq(Alphabet, 1, n), esc |-> FALSE] : n \in 5..6}

EscapedCases ==
    {[lit |-> Lit(<<"\\", "n">>), bytes |-> <<10>>, esc |-> TRUE],
     [lit |-> Lit(<<"\\", "/">>), bytes |-> <<47>>, esc |-> TRUE],
     [lit |-> Lit(<<"a", "\\", "\"", "b">>), bytes |-> <<97, 34, 98>>, esc |-> TRUE],
     [lit |-> Lit(<<"\\", "u", "0", "0", "4", "1">>), bytes |-> <<65>>, esc |-> TRUE],
     [lit |-> Lit(<<"\\", "u", "0", "0", "e", "9">>), bytes |-> <<195, 169>>, esc |-> TRUE],
     [lit |-> Lit(<<"\\", "u", "2", "0", "a", "c">>), bytes |-> <<226, 130, 172>>, esc |-> TRUE],
     [lit |-> Lit(<<"\\", "u", "d", "8", "3", "d", "\\", "u", "d", "e", "0", "0">>),
      bytes |-> <<240, 159, 152, 128>>, esc |-> TRUE],
     [lit |-> Lit(<<"a", "b", "c", "d", "e", "f", "\\", "t">>),
      bytes |-> Lit(<<"a", "b", "c", "d", "e", "f", "\t">>), esc |-> TRUE],
     [lit |-> Lit(<<"a", "b", "c", "d", "e", "f", "g", "\\", "\\">>),
      bytes |-> Lit(<<"a", "b", "c", "d", "e", "f", "g", "\\">>), esc |-> TRUE]}

StringCases == PlainCases \cup EscapedCases

Quoted(c) == Lit(<<"\"">>) \o c.lit \o Lit(<<"\"">>)

\* The texts that hold the literal of case c as a value.
Holders(c) ==
    {Quoted(c),
     Lit(<<"[">>) \o Quoted(c) \o Lit(<<"]">>),
     Lit(<<"{", "\"", "a", "\"", ":">>) \o Quoted(c) \o Lit(<<"}">>)}

InitString ==
    \E c \in {Text(v) : v \in UNION {Holders(sc) : sc \in StringCases}} \cup Seeds :
        Start(c, FALSE, NoError)

SpecString == InitString /\ [][NextQuery]_vars

(***************************************************************************)
(* Infinity and NaN.  SpecInfNan parses the tokens Infinity, -Infinity and *)
(* NaN, as the root, as an array element and as the value of an object     *)
(* member, with and without JSON_PARSE_ALLOW_INF_NAN in the options.       *)
(***************************************************************************)
InfNanTokens ==
    {Lit(<<"I", "n", "f", "i", "n", "i", "t", "y">>),
     Lit(<<"-", "I", "n", "f", "i", "n", "i", "t", "y">>),
     Lit(<<"N", "a", "N">>)}

\* The texts that hold the token tk where a value is expected.
TokenHolders(tk) ==
    {tk,
     Lit(<<"[">>) \o tk \o Lit(<<"]">>),
     Lit(<<"{", "\"", "a", "\"", ":">>) \o tk \o Lit(<<"}">>)}

InfNanFlags ==
    {JSON_PARSE_DEFAULT, JSON_PARSE_ALLOW_INF_NAN,
     JSON_PARSE_ALLOW_INF_NAN + JSON_PARSE_ALLOW_TRAILING}

InfNanCalls ==
    {Call(v, Len(v), [flags |-> fl, max_depth |-> 0]) :
        v \in UNION {TokenHolders(tk) : tk \in InfNanTokens}, fl \in InfNanFlags}

InitInfNan ==
    \E c \in InfNanCalls \cup Seeds \cup {Text(v) : v \in Scalars \cup Arrays} :
        Start(c, FALSE, NoError)

SpecInfNan == InitInfNan /\ [][Next]_vars

(***************************************************************************)
(* Pretty printing (src/src/stringify.c).  The caller serialises the root  *)
(* of the document its parse returned twice: with json_stringify_opts and  *)
(* options of its choice, and with json_stringify.                         *)
(***************************************************************************)
MaxIndent == 2

\* The newline member: NULL or a C string
Newlines == {[null |-> TRUE, s |-> <<>>], [null |-> FALSE, s |-> Lit(<<"\r", "\n">>)]}

\* struct json_stringify_options
StringifyOptions ==
    {[flags |-> fl, indent |-> n, newline |-> nl] :
        fl \in {0, JSON_STRINGIFY_PRETTY}, n \in 0..MaxIndent, nl \in Newlines}

\* json_stringify_opts(json_doc_root(doc), &so) and json_stringify(json_doc_root(doc))
json_stringify_both ==
    /\ pc = "done"
    /\ result = "doc"
    /\ Sound(doc)
    /\ \E so \in StringifyOptions :
          got' = <<[val |-> doc.root,
                    opts |-> so,
                    with_opts |-> json_stringify_opts(doc, doc.root, so),
                    plain |-> json_stringify_opts(doc, doc.root, NoStringifyOpts)]>>
    /\ UNCHANGED <<input, len, opts, pos, line, col, depth, doc, stack, pc, ret, err,
                   result, freed, span, members, round, docs, outs, prior, mayfail, oomed,
                   kin, kout, LibVars>>

NextPretty == Next \/ json_stringify_both

SpecPretty == InitQuery /\ [][NextPretty]_vars

\* Texts whose strings hold brackets, commas, colons, quotes and blanks.
LayoutTexts ==
    {Lit(<<"[", "\"", "[", ",", ":", "]", "\"", ",", "[", "]", ",", "{", "}", "]">>),
     Lit(<<"{", "\"", "a", " ", "b", "\"", ":", "[", "\"", "\\", "\"", ",", "\"", ",", "1", "]",
           ",", "\"", "c", "\"", ":", "{", "\"", "d", "\"", ":", "[", "[", "]", ",", "{", "}",
           "]", "}", "}">>)}

InitLayout ==
    \E c \in {Text(v) : v \in Arrays \cup Objects \cup LayoutTexts}
               \cup {Text(Lit(<<"[">>) \o v \o Lit(<<"]">>)) : v \in Arrays \cup Objects}
               \cup Seeds :
        Start(c, FALSE, NoError)

SpecLayout == InitLayout /\ [][NextPretty]_vars

(***************************************************************************)
(* json_stringify_buf (src/src/json_asm.c).  A caller's buffer is [null,   *)
(* s]: a NULL pointer, or the bytes of an array of at least buf_len bytes. *)
(***************************************************************************)
\* strlen(str): the number of bytes before the first NUL
strlen(str) ==
    CHOOSE n \in 0..Len(str) :
        /\ \A k \in 1..n : str[k] # 0
        /\ n < Len(str) => str[n + 1] = 0

\* json_stringify_buf with buf_len >= len for its test.
json_stringify_buf_ge(d, val, buf, buf_len) ==
    Let(json_stringify_opts(d, val, NoStringifyOpts), LAMBDA str :
    IF str.null THEN [ret |-> 0, buf |-> buf]
    ELSE [ret |-> strlen(str.s),
          buf |-> IF ~buf.null /\ buf_len >= strlen(str.s)
                  THEN [buf EXCEPT !.s = SubSeq(str.s, 1, strlen(str.s)) \o <<0>>
                                           \o SubSeq(@, strlen(str.s) + 2, Len(@))]
                  ELSE buf])

\* json_stringify_buf: [ret, buf], the value returned and the buffer afterwards
json_stringify_buf(d, val, buf, buf_len) ==
    Let(json_stringify_opts(d, val, NoStringifyOpts), LAMBDA str :
    IF str.null THEN [ret |-> 0, buf |-> buf]
    ELSE [ret |-> strlen(str.s),
          buf |-> IF ~buf.null /\ buf_len > strlen(str.s)
                  THEN [buf EXCEPT !.s = SubSeq(str.s, 1, strlen(str.s)) \o <<0>>
                                           \o SubSeq(@, strlen(str.s) + 2, Len(@))]
                  ELSE buf])

\* How far from the length of the serialisation the caller's buf_len lies.
BufSlack == 2

\* The byte the caller's buffer is filled with before the call.
Filler == 170

\* The buffers a caller passes for a serialisation of n bytes: [buf, buf_len]
CallerBuffers(n) ==
    {[buf |-> [null |-> FALSE, s |-> [k \in 1..m |-> Filler]], buf_len |-> m] :
        m \in {0} \cup (Max(n - BufSlack, 0)..(n + BufSlack))}
      \cup {[buf |-> [null |-> TRUE, s |-> <<>>], buf_len |-> m] : m \in {0, n + BufSlack}}

\* The caller's json_stringify_buf(val, buf, buf_len) on the root of its
\* document or on NULL, once per run.
call_json_stringify_buf ==
    /\ pc = "done"
    /\ result = "doc"
    /\ got = <<>>
    /\ Sound(doc)
    /\ \E val \in {NULL, doc.root} :
         \E b \in CallerBuffers(Len(stringify_value(doc, doc.root, NoStringifyOpts))) :
            got' = <<[doc |-> doc.id, val |-> val, buf |-> b.buf, buf_len |-> b.buf_len,
                      out |-> json_stringify_buf(doc, val, b.buf, b.buf_len)]>>
    /\ UNCHANGED <<input, len, opts, pos, line, col, depth, doc, stack, pc, ret, err,
                   result, freed, span, members, round, docs, outs, prior, mayfail, oomed,
                   kin, kout, LibVars>>

NextBuf == Next \/ call_json_stringify_buf

SpecBuf == InitQuery /\ [][NextBuf]_vars

(***************************************************************************)
(* String literals.  SpecLiteral parses every literal made of at most      *)
(* MaxAtoms atoms (a plain byte, a byte above 0x7f, a control byte, the    *)
(* escapes, \u forms of each UTF-8 length, the two surrogate halves, a     *)
(* short \u, an unknown escape, a lone backslash), with its closing quote  *)
(* and without it, and the plain literals of StringCases.                  *)
(***************************************************************************)
MaxAtoms == 2

Atoms ==
    {Lit(<<"a">>), <<233>>, <<31>>,
     Lit(<<"\\", "n">>), Lit(<<"\\", "\"">>), Lit(<<"\\", "/">>), Lit(<<"\\", "x">>),
     Lit(<<"\\", "u", "0", "0", "4", "1">>), Lit(<<"\\", "u", "0", "0", "E", "9">>),
     Lit(<<"\\", "u", "2", "0", "a", "c">>), Lit(<<"\\", "u", "0", "0", "0", "0">>),
     Lit(<<"\\", "u", "D", "8", "3", "d">>), Lit(<<"\\", "u", "d", "E", "0", "0">>),
     Lit(<<"\\", "u", "1", "2">>), Lit(<<"\\">>)}

AtomLiterals == {Flatten(ss) : ss \in UNION {[1..n -> Atoms] : n \in 0..MaxAtoms}}

LiteralTexts ==
    {Lit(<<"\"">>) \o l \o q :
        l \in AtomLiterals \cup {c.lit : c \in PlainCases}, q \in {<<>>, Lit(<<"\"">>)}}

InitLiteral == \E c \in {Text(v) : v \in LiteralTexts} \cup Seeds : Start(c, FALSE, NoError)

SpecLiteral == InitLiteral /\ [][Next]_vars

(***************************************************************************)
(* Growth of the string region.  The region starts at STRING_INITIAL_SIZE  *)
(* bytes whatever the input, so the shortest texts that make strings_grow  *)
(* run while earlier strings are stored hold 16 KiB of long strings.       *)
(* SpecStrings starts json_parse_opts on an array of the 8-byte string     *)
(* "abcdefgh" at the point where the strings parsed so far fill the        *)
(* region, and from the start on short texts.                              *)
(***************************************************************************)
LongElement == SubSeq(Alphabet, 1, JSON_SHORT_STR_MAX + 1)

\* ["abcdefgh","abcdefgh",...] with n elements
StringsArray(n) ==
    [i \in 1..(11 * n + 1) |->
        IF i = 1 THEN Ch["["] ELSE IF i = 11 * n + 1 THEN Ch["]"]
        ELSE IF (i - 2) % 11 \in {0, 9} THEN Ch["\""]
        ELSE IF (i - 2) % 11 = 10 THEN Ch[","]
        ELSE LongElement[(i - 2) % 11]]

\* How many of these strings the string region holds before it grows.
FitStrings == STRING_INITIAL_SIZE \div (Len(LongElement) + 1)

\* The parser's state in json_parse_opts(StringsArray(n), 11n + 1, NULL) when
\* parse_array has parsed k >= 1 elements and the comma after them and calls
\* parse_value for the next one.
MidStrings(n, k) ==
    [input |-> StringsArray(n), len |-> 11 * n + 1, opts |-> NullOpts,
     pos |-> 11 * k + 1, line |-> 1, col |-> 11 * k + 2, depth |-> 1,
     doc |-> [FreshDoc(11 * n + 1) EXCEPT
                !.arena = [i \in 1..(k + 1) |->
                             IF i = 1
                             THEN [val_set_type(ZeroVal, JSON_ARRAY) EXCEPT
                                     !.w2 = W2Child(Ptr(1, 2))]
                             ELSE [val_set_payload(val_set_type(ZeroVal, JSON_STRING_LONG),
                                                   W64(Len(LongElement)))
                                     EXCEPT !.w2 = W2Str(1, (Len(LongElement) + 1) * (i - 2)),
                                            !.next = IF i <= k THEN Ptr(1, i + 1) ELSE NULL]],
                !.arena_used = (k + 1) * SizeofVal,
                !.value_count = k + 1,
                !.strings = [j \in 1..((Len(LongElement) + 1) * k) |->
                               IF j % (Len(LongElement) + 1) = 0 THEN 0
                               ELSE LongElement[j % (Len(LongElement) + 1)]],
                !.strings_used = (Len(LongElement) + 1) * k],
     stack |-> <<[Frame("array", Ptr(1, 1), NULL, <<>>, 0) EXCEPT
                    !.first = Ptr(1, 2), !.prev = Ptr(1, k + 1)]>>,
     ret |-> Ptr(1, k + 1),
     span |-> [from |-> 11 * k - 10, to |-> 11 * k]]

\* The parser alone: json_parse_opts from its call to its return.
NextParse ==
    \/ json_parse_opts
    \/ parse_value_null
    \/ parse_value_true
    \/ parse_value_false
    \/ parse_value_string
    \/ parse_value_number
    \/ parse_value_default
    \/ parse_value_array
    \/ parse_array_loop
    \/ parse_value_object
    \/ parse_object_loop
    \/ parse_json_return

InitStrings ==
    \/ InProgress(MidStrings(FitStrings + 1, FitStrings), FALSE, NoError)
    \/ \E c \in Seeds \cup {Text(StringsArray(n)) : n \in 1..3}
                  \cup {Text(v) : v \in UNION {Holders(sc) : sc \in StringCases}} :
         Start(c, FALSE, NoError)

SpecStrings == InitStrings /\ [][NextParse]_vars

(***************************************************************************)
(* Positions.  SpecPos parses two-element arrays whose tokens are set      *)
(* apart by gaps of spaces, tabs, carriage returns and newlines, with      *)
(* elements that parse and elements that fail at their first byte or       *)
(* inside the token, with and without text after the array.                *)
(***************************************************************************)
Gaps == {<<>>, Lit(<<"\n">>), Lit(<<"\r", "\n", " ", "\t">>)}

FirstElements ==
    {Lit(<<"1">>), Lit(<<"\"", "a", "\\", "n", "\"">>), Lit(<<"n", "u", "l", "l">>),
     Lit(<<"{", "\"", "k", "\"", "\n", ":", "\n", "-", "2", ".", "5", "}">>)}

SecondElements ==
    {Lit(<<"t", "r", "u", "e">>), Lit(<<"n", "u", "l">>), Lit(<<"x">>), Lit(<<"0", "1">>),
     Lit(<<"\"", "a", "\n", "\"">>), Lit(<<"\"", "\\", "u", "1", "2", "\"">>),
     Lit(<<"[", "\n", "]">>), Lit(<<"{", "\n", "1", "}">>), <<>>}

Trailers == {<<>>, Lit(<<"\n", " ">>), Lit(<<"\n", " ", "x">>)}

PosTexts ==
    {w1 \o Lit(<<"[">>) \o w2 \o e1 \o w3 \o Lit(<<",">>) \o w4 \o e2 \o Lit(<<"]">>) \o t :
        w1 \in Gaps, w2 \in Gaps, w3 \in Gaps, w4 \in {<<>>, Lit(<<"\n">>)},
        e1 \in FirstElements, e2 \in SecondElements, t \in Trailers}

InitPos == \E c \in {Text(v) : v \in PosTexts} \cup Seeds : Start(c, FALSE, NoError)

SpecPos == InitPos /\ [][NextParse]_vars

(***************************************************************************)
(* The allocator on its own.  SpecAlloc creates a document with            *)
(* arena_create and calls arena_alloc_val and arena_alloc_string on it, at *)
(* most MaxAllocs times, with allocations that may fail and a realloc that *)
(* may move the string region.  The caller fills what it is given: a node  *)
(* with an Int, a string with a byte that tells the calls apart.  got      *)
(* holds what the last call returned.                                      *)
(***************************************************************************)
MaxAllocs == 3

\* arena_create's argument: the default, two nodes, and a size to align up.
InitialSizes == {0, 64, 100}

\* The len arguments of arena_alloc_string: a few bytes, more than half the
\* region, more than twice the region.
StringSizes == {8, 9000, 33000}

NoAlloc(initial) ==
    [initial |-> initial, calls |-> 0, op |-> "none", ok |-> TRUE, val |-> NULL,
     zeroed |-> TRUE, str |-> W2Null]

call_arena_alloc_val ==
    /\ pc = "arena"
    /\ got[1].calls < MaxAllocs
    /\ \E fail \in BOOLEAN :
         Let(arena_alloc_val(doc, fail), LAMBDA a :
            /\ doc' = Store(a.d, a.val,
                            val_set_payload(val_set_type(ZeroVal, JSON_INT),
                                            W64(got[1].calls + 1)))
            /\ got' = <<[got[1] EXCEPT !.calls = @ + 1, !.op = "val",
                                       !.ok = (a.val # NULL), !.val = a.val,
                                       !.zeroed = (a.val # NULL /\ Val(a.d, a.val) = ZeroVal),
                                       !.str = W2Null]>>)
    /\ UNCHANGED <<input, len, opts, pos, line, col, depth, stack, pc, ret, err,
                   result, freed, span, members, round, docs, outs, prior, mayfail, oomed,
                   kin, kout, LibVars>>

call_arena_alloc_string ==
    /\ pc = "arena"
    /\ got[1].calls < MaxAllocs
    /\ \E n \in StringSizes, fail \in BOOLEAN, moved \in BOOLEAN :
         Let(arena_alloc_string(doc, [i \in 1..n |-> Ch["a"] + got[1].calls], fail, moved),
             LAMBDA st :
            /\ doc' = st.d
            /\ got' = <<[got[1] EXCEPT !.calls = @ + 1, !.op = "str", !.ok = st.ok,
                                       !.val = NULL, !.zeroed = FALSE, !.str = st.str]>>)
    /\ UNCHANGED <<input, len, opts, pos, line, col, depth, stack, pc, ret, err,
                   result, freed, span, members, round, docs, outs, prior, mayfail, oomed,
                   kin, kout, LibVars>>

NextAlloc == call_arena_alloc_val \/ call_arena_alloc_string

InitAlloc ==
    /\ input = <<>> /\ len = 0 /\ opts = NullOpts
    /\ pos = 0 /\ line = 0 /\ col = 0 /\ depth = 0
    /\ \E initial \in InitialSizes :
         /\ doc = arena_create(initial, 1, FALSE)
         /\ got = <<NoAlloc(initial)>>
    /\ stack = <<>>
    /\ pc = "arena"
    /\ ret = NULL
    /\ err = NoError
    /\ result = "none"
    /\ freed = 0
    /\ span = [from |-> 0, to |-> 0]
    /\ members = {}
    /\ round = 0
    /\ docs = <<>> /\ outs = <<>> /\ prior = <<>>
    /\ mayfail = TRUE
    /\ oomed = FALSE
    /\ kin = <<>> /\ kout = <<>>
    /\ LibReady

SpecAlloc == InitAlloc /\ [][NextAlloc]_vars

(***************************************************************************)
(* json_equals in both directions.  SpecEquals parses arrays of two values *)
(* (scalars, arrays, objects with the same keys in another order, objects  *)
(* of equal size in which a key occurs twice) and calls json_equals(a, b)  *)
(* and json_equals(b, a) on the nodes of the document.                     *)
(***************************************************************************)
EqualsValues ==
    {Lit(<<"1">>), Lit(<<"2">>), Lit(<<"1", ".", "5">>), Lit(<<"n", "u", "l", "l">>),
     Lit(<<"\"", "a", "\"">>), Lit(<<"[", "1", "]">>), Lit(<<"[", "1", ",", "2", "]">>),
     Lit(<<"{", "}">>),
     Lit(<<"{", "\"", "a", "\"", ":", "1", "}">>),
     Lit(<<"{", "\"", "a", "\"", ":", "1", ",", "\"", "b", "\"", ":", "2", "}">>),
     Lit(<<"{", "\"", "b", "\"", ":", "2", ",", "\"", "a", "\"", ":", "1", "}">>),
     Lit(<<"{", "\"", "a", "\"", ":", "1", ",", "\"", "a", "\"", ":", "1", "}">>)}

EqualsTexts == {Lit(<<"[">>) \o x \o Lit(<<",">>) \o y \o Lit(<<"]">>) : x \in EqualsValues, y \in EqualsValues}

\* The caller's json_equals(a, b) and json_equals(b, a) on two values of its
\* document, once per document.
call_json_equals ==
    /\ pc = "done"
    /\ result = "doc"
    /\ got = <<>>
    /\ Sound(doc)
    /\ \E a \in Refs(doc), b \in Refs(doc) :
         got' = <<[doc |-> doc.id, a |-> a, b |-> b,
                   ab |-> json_equals(doc, a, doc, b),
                   ba |-> json_equals(doc, b, doc, a)]>>
    /\ UNCHANGED <<input, len, opts, pos, line, col, depth, doc, stack, pc, ret, err,
                   result, freed, span, members, round, docs, outs, prior, mayfail, oomed,
                   kin, kout, LibVars>>

NextEquals == NextParse \/ call_json_equals

InitEquals == \E c \in {Text(v) : v \in EqualsTexts} \cup Seeds : Start(c, FALSE, NoError)

SpecEquals == InitEquals /\ [][NextEquals]_vars

(***************************************************************************)
(* Strings as C strings.  SpecTerm parses the plain literals of            *)
(* PlainCases (0 to MaxPlain bytes) as the root, as an array element with  *)
(* and without a following sibling, as an object value and as a key with   *)
(* and without a following member.                                         *)
(***************************************************************************)
\* The texts that hold the quoted literal q at each place a string node can sit.
Places(q) ==
    {q,
     Lit(<<"[">>) \o q \o Lit(<<"]">>),
     Lit(<<"[">>) \o q \o Lit(<<",", "1", "]">>),
     Lit(<<"[", "1", ",">>) \o q \o Lit(<<"]">>),
     Lit(<<"{", "\"", "k", "\"", ":">>) \o q \o Lit(<<"}">>),
     Lit(<<"{", "\"", "k", "\"", ":">>) \o q \o Lit(<<",", "\"", "b", "\"", ":", "2", "}">>),
     Lit(<<"{">>) \o q \o Lit(<<":", "1", "}">>),
     Lit(<<"{">>) \o q \o Lit(<<":", "1", ",", "\"", "b", "\"", ":", "2", "}">>)}

InitTerm ==
    \E c \in {Text(v) : v \in UNION {Places(Quoted(sc)) : sc \in PlainCases}} \cup Seeds :
        Start(c, FALSE, NoError)

SpecTerm == InitTerm /\ [][NextParse]_vars

(***************************************************************************)
(* Termination.  json_parse_opts runs on the caller's thread from its call *)
(* to its return without waiting for anything, so while the call is in     *)
(* progress its next step is taken.  Every step between the call and the   *)
(* return (of parse_value, parse_array, parse_object and parse_json, the   *)
(* store through a freed pointer included) moves the parser to another     *)
(* place of the code or of the input, except the steps by which a failure  *)
(* returns through the enclosing containers, each of which leaves one      *)
(* container.  The fairness condition is weak fairness on these moves:     *)
(* SpecArenaFair is SpecArena with it.                                     *)
(***************************************************************************)
Place == <<pc, pos>>

Running ==
    /\ pc \in {"value", "ret"}
    /\ pc' \in {"value", "ret", "done", "fault"}
    /\ pos' \in pos..len

SpecArenaFair == SpecArena /\ WF_Place(Running)

(***************************************************************************)
(* Properties.                                                             *)
(***************************************************************************)
Returned == pc = "done" /\ result = "doc"

\* C1: round-trip equality.  When the input I was accepted (d1 = docs[1]) and
\* s = json_stringify(root(d1)) has been parsed again (which is what json_clone
\* does), the second parse returns a document d2 and json_equals(root(d1),
\* root(d2)) is true.
RoundTripEquality ==
    (pc = "done" /\ round = 2) =>
        /\ result = "doc"
        /\ json_equals(docs[1], docs[1].root, doc, doc.root)

\* A Float of integral value has come back from the round trip as an Int.
FloatCameBackAsInt ==
    /\ Returned
    /\ round = 2
    /\ json_get_type(docs[1], docs[1].root) = JSON_FLOAT
    /\ json_get_type(doc, doc.root) = JSON_INT

\* C9: json_stringify(parse(json_stringify(parse(I)))) is byte-for-byte
\* json_stringify(parse(I)).
StringifyIdempotent ==
    Len(outs) = 2 => (~outs[2].null /\ outs[2].s = outs[1].s)

\* "-0" has been serialized first and "0" after the round trip.
MinusZeroLost ==
    /\ Len(outs) = 2
    /\ outs[1].s = Lit(<<"-", "0">>)
    /\ outs[2].s = Lit(<<"0">>)

\* C3: in the document returned, every member's key node yields the decoded key
\* bytes through json_obj_key / json_obj_key_len and its value through its child
\* reference, and json_obj_getn with those bytes returns the value of a member
\* of that object with that key.
MemberKeyOk(m) ==
    /\ json_obj_key_len(doc, m.key) = Len(m.bytes)
    /\ MemRead(doc, json_obj_key(doc, m.key), Len(m.bytes)) = m.bytes
    /\ Child(doc, m.key) = m.value

MemberFound(m) ==
    \E m2 \in members :
        /\ m2.obj = m.obj
        /\ m2.bytes = m.bytes
        /\ json_obj_getn(doc, m.obj, m.bytes) = m2.value

ObjectMembersReadable ==
    Returned => \A m \in members : MemberKeyOk(m) /\ MemberFound(m)

\* A returned object has a member whose key is stored as a LongString.
LongKeyMember ==
    /\ Returned
    /\ \E m \in members : val_get_type(Val(doc, m.key)) = JSON_STRING_LONG

\* C8: no partial documents.  A document is returned only when the input is one
\* value (the bytes of span) with nothing but whitespace around it; on every
\* failure NULL is returned and the document that was being built has been
\* destroyed exactly once; content after a complete root value is a
\* JSON_ERROR_SYNTAX at the position of the first such byte.
NoPartialDocuments ==
    /\ freed <= 1
    /\ (pc \in {"value", "ret"}) => (freed = 0 /\ doc.id # 0)
    /\ Returned =>
         /\ ret # NULL
         /\ doc.root = ret
         /\ freed = 0
         /\ pos = len
         /\ \A i \in 0..(len - 1) : (i < span.from \/ i >= span.to) => IsWs(At(input, i))
    /\ (pc = "done" /\ result # "doc") =>
         /\ result = "null"
         /\ doc.agen = 0
         /\ freed = (IF doc.id # 0 THEN 1 ELSE 0)
         /\ ret # NULL =>
              /\ err.code = JSON_ERROR_SYNTAX
              /\ err.position = pos
              /\ pos < len
              /\ ~IsWs(At(input, pos))

\* A complete root value was followed by something else: NULL was returned and
\* the document destroyed.
TrailingContentRejected ==
    /\ pc = "done"
    /\ ret # NULL
    /\ result = "null"
    /\ freed = 1
    /\ err.message = "Trailing content after JSON"

\* The bytes of the root value a finished parse returned.
RootText == SubSeq(input, span.from + 1, span.to)

\* -?digits+
IsIntLiteral(t) ==
    LET m == IF t # <<>> /\ t[1] = Ch["-"] THEN Tail(t) ELSE t
    IN m # <<>> /\ \A i \in 1..Len(m) : IsDigit(m[i])

Magnitude(t) == IF t[1] = Ch["-"] THEN Tail(t) ELSE t

\* a < b, for decimal numerals without leading zeros
DecLess(a, b) ==
    \/ Len(a) < Len(b)
    \/ /\ Len(a) = Len(b)
       /\ \E i \in 1..Len(a) : a[i] < b[i] /\ \A j \in 1..(i - 1) : a[j] = b[j]

\* -2^59 <= t <= 2^59 - 1
InInt60(t) ==
    IF t[1] = Ch["-"] THEN ~DecLess(Pow59Text, Magnitude(t))
    ELSE DecLess(Magnitude(t), Pow59Text)

\* The numeral of the literal's value: "-0" is 0.
Canonical(t) == IF Magnitude(t) = Lit(<<"0">>) THEN Lit(<<"0">>) ELSE t

\* C4: an integer literal (the whole of a NUL-terminated input) is stored as an
\* Int node only when its value lies in [-2^59, 2^59 - 1], json_get_int then
\* returns exactly that value, and every integer literal outside the range is
\* stored as a Float node.
IntOnlyInSixtyBitRange ==
    (Returned /\ round = 1 /\ len = Len(input) /\ IsIntLiteral(RootText)) =>
        /\ json_get_type(doc, doc.root) = JSON_INT =>
             /\ InInt60(RootText)
             /\ FormatLL(json_get_int(doc, doc.root)) = Canonical(RootText)
        /\ ~InInt60(RootText) => json_get_type(doc, doc.root) = JSON_FLOAT

\* 2^59 has been stored as an Int node, and json_get_int returns -2^59 for it.
Pow59StoredAsInt ==
    /\ Returned
    /\ RootText = Pow59Text
    /\ json_get_type(doc, doc.root) = JSON_INT
    /\ FormatLL(json_get_int(doc, doc.root)) = Lit(<<"-">>) \o Pow59Text

\* C7: the outcome of json_parse_opts(json, len, opts) is a function of the
\* first len bytes: a second call on a buffer that holds the same first len
\* bytes and differs after them returns what the first call returned, with the
\* same error record and the same values in the document.
OutcomeFromFirstLenBytes ==
    (pc = "done" /\ prior # <<>>) => Outcome = prior[1]

\* A number token ended at index len with a digit behind it, and the document
\* returned holds a number the first len bytes do not spell.
DigitAfterLenDecoded ==
    /\ Returned
    /\ len < Len(input)
    /\ IsDigit(At(input, len))
    /\ IsIntLiteral(SubSeq(input, 1, len))
    /\ json_get_type(doc, doc.root) = JSON_INT
    /\ FormatLL(json_get_int(doc, doc.root)) # Canonical(SubSeq(input, 1, len))

\* The containers open after the first i bytes of the input (no text of
\* SpecDepth has a bracket inside a string).
OpenAt(i) ==
    Cardinality({k \in 1..i : input[k] \in {Ch["["], Ch["{"]}})
      - Cardinality({k \in 1..i : input[k] \in {Ch["]"], Ch["}"]}})

\* How deep the input nests.
Nesting == CHOOSE n \in 0..len : (\E i \in 0..len : OpenAt(i) = n) /\ \A i \in 0..len : OpenAt(i) <= n

\* C6: with max_depth = D > 0 the depth counter never exceeds D, a text that
\* nests at most D deep is not rejected for depth (and parses, being well
\* formed), and a text that nests deeper fails with JSON_ERROR_DEPTH; with
\* max_depth = 0 there is no depth failure.  While the parse has not failed the
\* counter is the number of containers open at the parser's position, and it is
\* 0 when the parse has succeeded.
DepthLimit ==
    /\ opts.max_depth > 0 => depth <= opts.max_depth
    /\ (pc = "value" \/ (pc = "ret" /\ ret # NULL)) =>
         (depth = OpenAt(pos) /\ depth = Len(stack))
    /\ Returned => depth = 0
    /\ pc = "done" =>
         /\ (opts.max_depth = 0 \/ Nesting <= opts.max_depth) =>
              /\ err.code # JSON_ERROR_DEPTH
              /\ input \in DepthTextSet => result = "doc"
         /\ (opts.max_depth > 0 /\ Nesting > opts.max_depth /\ input \in DepthTextSet) =>
              (result = "null" /\ err.code = JSON_ERROR_DEPTH)

\* A text nested max_depth + 1 deep has failed with JSON_ERROR_DEPTH.
DepthLimitHit ==
    /\ pc = "done"
    /\ result = "null"
    /\ err.code = JSON_ERROR_DEPTH
    /\ opts.max_depth > 0
    /\ Nesting = opts.max_depth + 1

\* The slice holds no digit where a number would start.
NoDigit(k) ==
    LET p == IF 0 < k.len /\ At(k.str, 0) = Ch["-"] THEN 1 ELSE 0
    IN ~(p < k.len /\ IsDigit(At(k.str, p)))

\* C10: every parse_int variant returns the same (value, consumed) pair for the
\* slice: consumed is 0 when the slice holds no digit, and at most 19 digits
\* are consumed.
ParseIntVariantsAgree ==
    \A a \in DOMAIN kout :
        kout[a] # <<>> =>
            /\ \A b \in DOMAIN kout : kout[b] # <<>> => kout[b] = kout[a]
            /\ NoDigit(kin) => kout[a][1].consumed = 0
            /\ kout[a][1].consumed <= 19 + (IF At(kin.str, 0) = Ch["-"] THEN 1 ELSE 0)

\* For the slice "-" the scalar kernel consumed one byte and the NEON kernel none.
LoneMinusConsumed ==
    /\ kin = [str |-> Lit(<<"-">>), len |-> 1]
    /\ kout["scalar"] = <<[value |-> WZero, consumed |-> 1]>>
    /\ kout["neon"] = <<[value |-> WZero, consumed |-> 0]>>

\* The node references the parser and the document hold.
References ==
    {ret, doc.root}
      \cup UNION {{stack[i].node, stack[i].first, stack[i].prev, stack[i].key} :
                    i \in 1..Len(stack)}
      \cup {doc.arena[i].next : i \in 1..Len(doc.arena)}
      \cup {doc.arena[i].w2.p : i \in {j \in 1..Len(doc.arena) : doc.arena[j].w2.k = "child"}}

\* C2: while a document is being built and after it is returned, every node
\* reference handed out (held by parse_array / parse_object, stored as first
\* child, next sibling, key's value or root) refers to a node inside the
\* document's current node arena.
ReferencesStable ==
    (pc \in {"value", "ret", "done"} /\ doc.agen # 0) =>
        \A p \in References : p = NULL \/ Live(doc, p)

\* The arena has grown while parse_array held references to its nodes.
ArenaGrewUnderArray ==
    /\ pc = "ret"
    /\ doc.agen = 2
    /\ stack # <<>>
    /\ stack[1].node.gen = 1

\* C5: when an allocation has failed during a parse, json_parse_opts returns
\* NULL and the error record has code JSON_ERROR_MEMORY, whatever it held
\* before the call.
AllocFailureReported ==
    (pc = "done" /\ oomed) => (result = "null" /\ err.code = JSON_ERROR_MEMORY)

\* arena_alloc_val has returned NULL, json_parse_opts has returned NULL, and
\* the error record is the one the thread had before the call.
AllocFailureSilent ==
    /\ pc = "done"
    /\ oomed
    /\ result = "null"
    /\ doc.id # 0
    /\ err \in {NoError, PreviousError}

\* The state SpecArena starts the long array from is the state the parser
\* reaches step by step (checked on the array of three elements).
MidArrayAsParsed ==
    \A k \in 1..2 :
        (input = OnesArray(3) /\ len = 7 /\ round = 1 /\ pc = "value" /\ pos = 2 * k + 1) =>
            LET m == MidArray(3, k)
            IN /\ opts = m.opts /\ line = m.line /\ col = m.col /\ depth = m.depth
               /\ doc = m.doc /\ stack = m.stack /\ ret = m.ret /\ span = m.span
               /\ result = "none" /\ freed = 0 /\ members = {} /\ docs = <<>>
               /\ outs = <<>> /\ prior = <<>> /\ ~oomed

\* The parser is between the elements of the array of three elements.
MidArrayReached == input = OnesArray(3) /\ round = 1 /\ pc = "value" /\ pos = 5

\* C11: every find_structural variant that has returned for the slice has
\* returned the count min(len, 64) and the mask whose bit i, for i below
\* that count, is set iff byte i is one of the seven structural bytes, all
\* other bits being 0.
FindStructuralVariantsAgree ==
    \A a \in DOMAIN kout :
        (kout[a] # <<>> /\ "mask" \in DOMAIN kout[a][1]) =>
            /\ ~kout[a][1].fault
            /\ kout[a][1].count = Min(kin.len, 64)
            /\ kout[a][1].mask =
                 {i \in 0..(Min(kin.len, 64) - 1) :
                    At(kin.str, i) \in {123, 125, 91, 93, 58, 44, 34}}

\* On a slice of 17 bytes, all of them in the buffer, the scalar kernel
\* processed 17 bytes and the NEON kernel 16.
NeonStopsAtSixteen ==
    /\ kin.len = 17
    /\ kout["scalar"] # <<>> /\ kout["neon"] # <<>>
    /\ "mask" \in DOMAIN kout["scalar"][1]
    /\ kout["scalar"][1].count = 17
    /\ kout["neon"][1].count = 16
    /\ ~kout["neon"][1].fault

\* C12: every scan_string variant that has returned for the slice has returned
\* the smallest index holding a double quote, a backslash or a byte below
\* 0x20, or len if the slice holds none; a byte >= 0x80 never stops the scan.
ScanStringVariantsAgree ==
    \A a \in DOMAIN kout :
        (kout[a] # <<>> /\ "index" \in DOMAIN kout[a][1]) =>
            LET r == kout[a][1].index
                Stops == {i \in 0..(kin.len - 1) : At(kin.str, i) \in {34, 92} \cup 0..31}
            IN /\ r \in 0..kin.len
               /\ r < kin.len => r \in Stops
               /\ \A i \in Stops : r <= i

\* All four variants have scanned a slice of at least 17 bytes whose first 16
\* bytes are >= 0x80 and whose first stop byte lies in the second vector.
ScanPastHighBytes ==
    /\ \A a \in DOMAIN kout : kout[a] # <<>> /\ "index" \in DOMAIN kout[a][1]
    /\ kin.len >= 17
    /\ \A i \in 0..15 : At(kin.str, i) >= 128
    /\ kout["neon"][1].index = 16
    /\ kin.build = "sve2" /\ kin.vl = 16

\* The feature bits the kernels of a variant need.
RequiredBits(v) ==
    IF v = "avx512" THEN {"AVX512F", "AVX512BW"}
    ELSE IF v = "avx2" THEN {"AVX2"}
    ELSE IF v = "sse42" THEN {"SSE42"}
    ELSE IF v = "sve2" THEN {"SVE2"}
    ELSE IF v = "sve" THEN {"SVE"}
    ELSE IF v = "neon" THEN {"NEON"}
    ELSE {}

\* C13: once json_init has returned and its stores are in memory, the table
\* holds one complete kernel set (the three vector kernels of one variant and
\* the scalar parse_float), and the feature bits that variant requires are
\* in g_cpu_features.
SelectedSetSupported ==
    (g_initialized /\ \A t \in DOMAIN threads : threads[t].buf = Drained /\ threads[t].pc = "idle") =>
        /\ g_json_ops.find_structural = g_json_ops.scan_string
        /\ g_json_ops.parse_int = g_json_ops.scan_string
        /\ g_json_ops.parse_float = "scalar"
        /\ RequiredBits(g_json_ops.scan_string) \subseteq g_cpu_features

\* On an x86-64 processor that reports neither SSE4.2 nor AVX2, json_init has
\* stored the SSE4.2 kernels.
Sse42WithoutSse42 ==
    /\ build.arch = "x86_64" /\ ~build.USE_SCALAR_ONLY
    /\ g_initialized
    /\ \A t \in DOMAIN threads : threads[t].buf = Drained
    /\ "SSE42" \notin g_cpu_features
    /\ g_json_ops.scan_string = "sse42"

\* C14: a thread that found g_initialized set, or finished its own
\* json_init, read the feature mask and the four kernel pointers a
\* single-threaded json_init stores; and once g_initialized is set in
\* memory with no store pending, the globals hold those values.
InitRaceSafe ==
    LET f == cpu_detect_features(build)
        single == [cpu_features |-> f, ops |-> OpsOf(SelectVariant(build, f))]
    IN /\ \A t \in DOMAIN threads : threads[t].saw # <<>> => threads[t].saw[1] = single
       /\ (g_initialized /\ \A t \in DOMAIN threads : threads[t].buf = Drained) =>
             (g_cpu_features = single.cpu_features /\ g_json_ops = single.ops)

\* Thread t2 found g_initialized set while stores of t1's json_init had not
\* reached memory, and read a kernel pointer that is still NULL.
SawInitializedBeforeTable ==
    /\ DOMAIN threads = {"t1", "t2"}
    /\ threads["t1"].buf # Drained
    /\ threads["t2"].saw # <<>>
    /\ threads["t2"].buf = Drained /\ threads["t2"].pc = "idle"
    /\ threads["t2"].saw[1].ops.parse_int = "NULL"

\* What json_get_error() returns in the calling thread after a failed parse:
\* the code of the failure and the place where the parser stopped.
FailureRecorded ==
    (pc = "done" /\ result = "null") =>
        /\ err.code # JSON_OK
        /\ IF len = 0
           THEN err = set_error(JSON_ERROR_SYNTAX, 0, 1, 1, "Empty input")
           ELSE err.position = pos /\ err.line = line /\ err.column = col

\* C15: the error record is per thread: a parse in one thread never changes
\* the record another thread reads, and after a failed parse in a thread
\* json_get_error() in that thread returns that failure's code, position,
\* line and column until the thread's next parse.
ErrorRecordPerThread ==
    /\ []FailureRecorded
    /\ [][/\ threads' # threads => err' = err
          /\ CallerVars' # CallerVars =>
               \A t \in DOMAIN threads :
                  /\ threads'[t].err = threads[t].err
                  /\ threads'[t].last = threads[t].last]_vars

\* The calling thread's parse has failed in arena_alloc_val while another
\* thread holds the record of its own failed parse: json_get_error() in the
\* calling thread returns the record of an earlier call.
StaleRecordAfterFailedParse ==
    /\ pc = "done"
    /\ result = "null"
    /\ oomed
    /\ doc.id # 0
    /\ err = PreviousError
    /\ pos # PreviousError.position
    /\ \E t \in DOMAIN threads :
          /\ threads[t].err.code = JSON_ERROR_SYNTAX
          /\ threads[t].last = threads[t].err

\* The type tag of the value reference last queried, -1 for NULL.
QueriedType == got[1].tag

\* What every accessor returns when the value is NULL or not of its type.
DefaultsReturned ==
    got # <<>> =>
        /\ QueriedType # JSON_TRUE => got[1].bool = FALSE
        /\ QueriedType \notin {JSON_INT, JSON_FLOAT} =>
              got[1].int = WZero /\ got[1].uint = WZero /\ got[1].num = FZero
        /\ QueriedType \notin {JSON_STRING_SHORT, JSON_STRING_LONG} =>
              got[1].str = NullCharPtr /\ got[1].str_len = 0
        /\ QueriedType # JSON_OBJECT =>
              got[1].obj_get = NULL /\ got[1].obj_first = NULL /\ got[1].obj_size = 0
        /\ QueriedType # JSON_ARRAY =>
              got[1].arr_get = NULL /\ got[1].arr_first = NULL /\ got[1].arr_size = 0
        /\ got[1].val = NULL =>
              got[1].stringify.null /\ got[1].clone = "NULL" /\ got[1].equals

\* C16: the accessors never fail: for NULL and for a value of another type
\* they return false, 0, 0.0, NULL or an empty size, json_stringify(NULL) and
\* json_clone(NULL) return NULL, json_equals(NULL, NULL) is true, and no
\* such call changes the document or the error record.
AccessorsNeverFail ==
    /\ []DefaultsReturned
    /\ [][got' # got => doc' = doc /\ err' = err]_vars

\* The accessors have been called on an object that has a member, with the
\* key of a member and index 0, and on NULL in another run.
ObjectQueriedAsArray ==
    /\ got # <<>>
    /\ QueriedType = JSON_OBJECT
    /\ got[1].obj_size > 0
    /\ got[1].obj_get # NULL
    /\ got[1].arr_get = NULL
    /\ got[1].arr_size = 0
    /\ got[1].str = NullCharPtr
    /\ ~got[1].bool

\* The text handed to the parser: byte i of the first len bytes, NUL after them.
TextAt(i) == IF i < len THEN At(input, i) ELSE 0

\* The number of digits of the text from index i on.
TextDigits(i) ==
    CHOOSE n \in 0..Max(len - i, 0) :
        /\ \A k \in 0..(n - 1) : IsDigit(TextAt(i + k))
        /\ ~IsDigit(TextAt(i + n))

\* The parts of the number token at the start of the text, read off the
\* grammar -?(0|[1-9][0-9]*)(\.[0-9]+)?([eE][+-]?[0-9]+)?: where the integer
\* digits begin and end, where a fraction and an exponent end when they are
\* present.
TokIntFrom == IF TextAt(0) = Ch["-"] THEN 1 ELSE 0

TokIntTo == TokIntFrom + (IF TextAt(TokIntFrom) = Ch["0"] THEN 1 ELSE TextDigits(TokIntFrom))

TokHasFrac == TextAt(TokIntTo) = Ch["."] /\ IsDigit(TextAt(TokIntTo + 1))

TokFracTo == IF TokHasFrac THEN TokIntTo + 1 + TextDigits(TokIntTo + 1) ELSE TokIntTo

TokExpDigits ==
    TokFracTo + 1 + (IF TextAt(TokFracTo + 1) \in {Ch["+"], Ch["-"]} THEN 1 ELSE 0)

TokHasExp == TextAt(TokFracTo) \in {Ch["e"], Ch["E"]} /\ IsDigit(TextAt(TokExpDigits))

\* The length of the longest prefix of the text that matches the grammar.
TokLen == IF TokHasExp THEN TokExpDigits + TextDigits(TokExpDigits) ELSE TokFracTo

\* The four malformed tokens: '-' without a digit, a leading 0 before a digit,
\* '.' without a digit, an exponent marker without a digit.
TokMalformed ==
    \/ ~IsDigit(TextAt(TokIntFrom))
    \/ TextAt(TokIntFrom) = Ch["0"] /\ IsDigit(TextAt(TokIntFrom + 1))
    \/ TextAt(TokIntTo) = Ch["."] /\ ~IsDigit(TextAt(TokIntTo + 1))
    \/ TextAt(TokFracTo) \in {Ch["e"], Ch["E"]} /\ ~IsDigit(TextAt(TokExpDigits))

\* The value of the integer digits of the token, as a 64-bit word.
TokIntValue ==
    LET m == AccDec([k \in 1..(TokIntTo - TokIntFrom) |-> TextAt(TokIntFrom + k - 1) - Ch["0"]],
                    1, [w |-> WZero, ovf |-> FALSE]).w
    IN IF TokIntFrom = 1 THEN WNeg(m) ELSE m

\* parse_value has returned from parse_number on a text that begins with a
\* number token.
NumberReturned ==
    /\ pc = "ret"
    /\ stack = <<>>
    /\ span.from = 0
    /\ (TextAt(0) = Ch["-"] \/ IsDigit(TextAt(0)))

\* C17: parse_number accepts the longest prefix that matches the number
\* grammar and advances pos and col by its length; it fails with
\* JSON_ERROR_NUMBER on the four malformed tokens; a token with a fraction
\* or an exponent is stored as a Float, any other as the number its integer
\* digits spell.
NumberGrammar ==
    NumberReturned =>
        IF TokMalformed
        THEN ret = NULL /\ err.code = JSON_ERROR_NUMBER
        ELSE /\ ret # NULL
             /\ pos = TokLen /\ col = 1 + TokLen /\ line = 1
             /\ IF TokHasFrac \/ TokHasExp
                THEN val_get_type(Val(doc, ret)) = JSON_FLOAT
                ELSE /\ val_get_type(Val(doc, ret)) = JSON_INT
                     /\ json_get_int(doc, ret) = TokIntValue

\* A token that matches the grammar in full, exponent included, and that
\* parse_number has rejected with JSON_ERROR_NUMBER.
WellFormedTokenRejected ==
    /\ NumberReturned
    /\ ~TokMalformed
    /\ TokHasExp
    /\ TokLen = len
    /\ ret = NULL
    /\ err.code = JSON_ERROR_NUMBER
    /\ err.message = "Number out of range"

\* The node of the string value in the document of a text of Holders.
StringValueRef ==
    IF json_get_type(doc, doc.root) = JSON_ARRAY THEN json_arr_first(doc, doc.root)
    ELSE IF json_get_type(doc, doc.root) = JSON_OBJECT
    THEN Child(doc, json_obj_first(doc, doc.root))
    ELSE doc.root

\* The accessors have been called on the string value the first parse stored.
StringValueQueried ==
    /\ pc = "done"
    /\ result = "doc"
    /\ round = 1
    /\ got # <<>>
    /\ got[1].val = StringValueRef

\* C18: a string value is stored inline (ShortString) iff it decodes to at
\* most 7 bytes and its literal has no escape, and as a LongString otherwise;
\* in both layouts json_get_str and json_get_str_len give the decoded bytes
\* and their number and json_get_type reports JSON_STRING.
ShortStringBoundary ==
    StringValueQueried =>
        \A c \in StringCases :
            input \in Holders(c) =>
                /\ got[1].tag = IF ~c.esc /\ Len(c.bytes) <= 7 THEN JSON_STRING_SHORT
                                ELSE JSON_STRING_LONG
                /\ got[1].str # NullCharPtr
                /\ got[1].str_len = Len(c.bytes)
                /\ got[1].bytes = c.bytes
                /\ got[1].type = JSON_STRING

\* A 7-byte string without escapes has been stored inline and read back; in
\* other runs an 8-byte string and a 7-byte string with an escape are stored
\* as LongStrings.
SevenBytesInline ==
    /\ StringValueQueried
    /\ \E c \in PlainCases : Len(c.bytes) = 7 /\ input \in Holders(c)
    /\ got[1].tag = JSON_STRING_SHORT
    /\ got[1].str_len = 7

\* The first parse of a text that holds Infinity, -Infinity or NaN has returned.
InfNanParsed ==
    /\ pc = "done"
    /\ round = 1
    /\ \E tk \in InfNanTokens : input \in TokenHolders(tk)

\* C19: with JSON_PARSE_ALLOW_INF_NAN in the options the tokens Infinity,
\* -Infinity and NaN are accepted wherever a value is expected and stored as
\* Float nodes; without the flag they are rejected.
InfNanAllowed ==
    InfNanParsed =>
        IF HasFlag(opts.flags, JSON_PARSE_ALLOW_INF_NAN)
        THEN result = "doc" /\ val_get_type(Val(doc, StringValueRef)) = JSON_FLOAT
        ELSE result = "null"

\* json_parse_opts has returned NULL for the text NaN although the options
\* carry JSON_PARSE_ALLOW_INF_NAN.
NaNRejectedWithFlag ==
    /\ InfNanParsed
    /\ input = Lit(<<"N", "a", "N">>)
    /\ opts.flags = JSON_PARSE_ALLOW_INF_NAN
    /\ result = "null"
    /\ err.code = JSON_ERROR_SYNTAX
    /\ err.message = "Unexpected character"

\* C20: indent = 0 means minified output whatever the pretty flag says:
\* json_stringify_opts with flags = JSON_STRINGIFY_PRETTY and indent = 0
\* returns the bytes json_stringify returns.
IndentZeroIsMinified ==
    (/\ got # <<>>
     /\ got[1].opts.flags = JSON_STRINGIFY_PRETTY
     /\ got[1].opts.indent = 0) => got[1].with_opts = got[1].plain

\* An array with an element has been serialised with the pretty flag and
\* indent = 0, and the string has a newline after '[' where json_stringify
\* has none.
NewlineAtIndentZero ==
    /\ got # <<>>
    /\ got[1].opts.flags = JSON_STRINGIFY_PRETTY
    /\ got[1].opts.indent = 0
    /\ ~got[1].with_opts.null
    /\ Len(got[1].with_opts.s) > Len(got[1].plain.s)
    /\ got[1].with_opts.s[1] = Ch["["]
    /\ got[1].with_opts.s[2] = Ch["\n"]
    /\ got[1].plain.s[2] # Ch["\n"]

\* The compact text t read as tokens.  A quote delimits a string when an
\* even number of backslashes stands before it; a byte is a token byte when
\* an even number of delimiting quotes stands before it.
Backslashes(t, i) ==
    CHOOSE n \in 0..(i - 1) :
        /\ \A k \in 1..n : t[i - k] = Ch["\\"]
        /\ n < i - 1 => t[i - n - 1] # Ch["\\"]

IsDelimiter(t, i) == t[i] = Ch["\""] /\ Backslashes(t, i) % 2 = 0

IsTokenByte(t, i) ==
    /\ ~IsDelimiter(t, i)
    /\ Cardinality({j \in 1..(i - 1) : IsDelimiter(t, j)}) % 2 = 0

\* The number of containers open at byte i of t.
OpenBefore(t, i) ==
    Cardinality({j \in 1..(i - 1) : IsTokenByte(t, j) /\ t[j] \in {Ch["["], Ch["{"]}})
      - Cardinality({j \in 1..(i - 1) : IsTokenByte(t, j) /\ t[j] \in {Ch["]"], Ch["}"]}})

\* The newline string followed by k spaces.
Break(nl, k) == nl \o [j \in 1..k |-> Ch[" "]]

\* What the layout rule puts in the place of byte i of the compact text t,
\* for n spaces per level and the newline string nl.
Laid(t, i, n, nl) ==
    IF ~IsTokenByte(t, i) THEN <<t[i]>>
    ELSE IF t[i] \in {Ch["["], Ch["{"]}
    THEN IF At(t, i) \in {Ch["]"], Ch["}"]} THEN <<t[i]>>
         ELSE <<t[i]>> \o Break(nl, n * (OpenBefore(t, i) + 1))
    ELSE IF t[i] = Ch[","] THEN <<t[i]>> \o Break(nl, n * OpenBefore(t, i))
    ELSE IF t[i] \in {Ch["]"], Ch["}"]}
    THEN IF At(t, i - 2) \in {Ch["["], Ch["{"]} THEN <<t[i]>>
         ELSE Break(nl, n * (OpenBefore(t, i) - 1)) \o <<t[i]>>
    ELSE IF t[i] = Ch[":"] THEN <<t[i], Ch[" "]>>
    ELSE <<t[i]>>

\* The pretty layout of the compact text t.
Layout(t, n, nl) == Flatten([i \in 1..Len(t) |-> Laid(t, i, n, nl)])

\* C21: with JSON_STRINGIFY_PRETTY and indent n > 0 the serializer emits the
\* newline string and n * (depth + 1) spaces after the opening bracket of a
\* non-empty container and after each comma, the newline string and
\* n * depth spaces before the closing bracket, and a space after each ':';
\* empty containers are [] and {}; the compact output has no whitespace
\* between tokens, and the pretty output is the compact one with exactly
\* these insertions.
PrettyLayout ==
    (got # <<>>) =>
        /\ \A i \in 1..Len(got[1].plain.s) :
              IsTokenByte(got[1].plain.s, i) => ~IsWs(got[1].plain.s[i])
        /\ ~Pretty(got[1].opts) => got[1].with_opts = got[1].plain
        /\ (Pretty(got[1].opts) /\ got[1].opts.indent > 0) =>
              got[1].with_opts.s =
                 Layout(got[1].plain.s, got[1].opts.indent,
                        IF got[1].opts.newline.null THEN <<Ch["\n"]>>
                        ELSE got[1].opts.newline.s)

\* A document that nests containers to depth three, with empty containers
\* and strings that hold brackets and commas, has been serialised with
\* indent 2 and a newline string of its own.
NestedPrettyPrinted ==
    /\ got # <<>>
    /\ Pretty(got[1].opts)
    /\ got[1].opts.indent = 2
    /\ ~got[1].opts.newline.null
    /\ \E i \in 1..Len(got[1].plain.s) :
          /\ OpenBefore(got[1].plain.s, i) = 3
          /\ IsTokenByte(got[1].plain.s, i)
          /\ got[1].plain.s[i] = Ch["["]
          /\ got[1].plain.s[i + 1] = Ch["]"]
    /\ Len(got[1].with_opts.s) > Len(got[1].plain.s) + 20

\* json_stringify_buf has been called on the document the caller holds.
BufCalled == got # <<>> /\ pc = "done" /\ result = "doc" /\ got[1].doc = doc.id

\* The compact serialisation of the value json_stringify_buf was called on.
CompactOfVal == stringify_value(doc, got[1].val, NoStringifyOpts)

Dangling == Ptr(0, 1)

\* The list a caller walks from p with json_arr_next / json_obj_next, as far
\* as it stays inside the document's current arena block.
RECURSIVE Chain(_, _)
Chain(d, p) ==
    IF p = NULL THEN <<>>
    ELSE IF ~Live(d, p) THEN <<Dangling>>
    ELSE <<p>> \o Chain(d, Next_(d, p))

\* The child list of the container node p.
ChainOf(d, p) == IF Live(d, p) THEN Chain(d, Child(d, p)) ELSE <<Dangling>>

\* The nodes of the returned document a caller can reach.
Reachable == {doc.root} \cup ((References \ {NULL}) \cap {Ptr(g, i) : g \in 1..doc.agen, i \in 1..Len(doc.arena)})

\* The child list of the container p ends with NULL inside the arena, has
\* its nodes in the order they were parsed (allocation order), each once,
\* and the size, index and iteration calls agree with it.
ListOk(p) ==
    /\ Live(doc, p)
    /\ val_get_type(Val(doc, p)) \in {JSON_ARRAY, JSON_OBJECT} =>
         Let(ChainOf(doc, p), LAMBDA ch :
            /\ \A i \in 1..Len(ch) : ch[i] # Dangling
            /\ \A i \in 1..(Len(ch) - 1) : ch[i].idx < ch[i + 1].idx
            /\ \A i \in 1..Len(ch) : ch[i].idx > p.idx
            /\ IF val_get_type(Val(doc, p)) = JSON_ARRAY
               THEN /\ json_arr_size(doc, p) = Len(ch)
                    /\ json_obj_size(doc, p) = 0
                    /\ json_arr_first(doc, p) = (IF ch = <<>> THEN NULL ELSE ch[1])
                    /\ \A i \in 0..(Len(ch) + 1) :
                          json_arr_get(doc, p, i) = (IF i < Len(ch) THEN ch[i + 1] ELSE NULL)
               ELSE /\ json_obj_size(doc, p) = Len(ch)
                    /\ json_arr_size(doc, p) = 0
                    /\ json_obj_first(doc, p) = (IF ch = <<>> THEN NULL ELSE ch[1])
                    /\ \A i \in 1..Len(ch) : Live(doc, Child(doc, ch[i]))
            /\ \A i \in 1..Len(ch) :
                  Next_(doc, ch[i]) = (IF i < Len(ch) THEN ch[i + 1] ELSE NULL))

ChildListsTerminated == Returned => \A p \in Reachable : ListOk(p)

\* parse_array has an element, or parse_object a member's value, to link.
Linking == pc = "ret" /\ stack # <<>> /\ ret # NULL

\* The step that links it puts it at the end of its container's list.
LinkedAtEnd ==
    Linking =>
        /\ ChainOf(doc', Top.node)
             = Append(ChainOf(doc, Top.node), IF Top.kind = "array" THEN ret ELSE Top.key)
        /\ Top.kind = "object" => Live(doc', Top.key) /\ Child(doc', Top.key) = ret

\* C23: the child list of every array and object of a returned document holds
\* the elements (key nodes) in input order, each once, and ends with NULL:
\* each element parsed is linked at the end of its container's list, and
\* json_arr_size / json_obj_size, json_arr_get (NULL from index n on) and
\* the first / next iteration agree with that list.
ChildListsInInputOrder == []ChildListsTerminated /\ [][LinkedAtEnd]_vars

\* json_parse_opts has returned the document of the long array after its
\* arena grew: the root reference and the links name the freed block.
ListInFreedBlock ==
    /\ Returned
    /\ doc.agen = 2
    /\ doc.root.gen = 1
    /\ doc.value_count = SpillArrayLen + 1

\* The value of a hexadecimal digit, -1 for any other byte.
RefHex(b) ==
    IF b \in 48..57 THEN b - 48
    ELSE IF b \in 65..70 THEN b - 55
    ELSE IF b \in 97..102 THEN b - 87
    ELSE 0 - 1

\* The code unit of the four bytes of t from i, -1 unless all four are
\* hexadecimal digits inside t.
RefUnit(t, i) ==
    IF i + 3 > Len(t) \/ \E k \in 0..3 : RefHex(t[i + k]) < 0 THEN 0 - 1
    ELSE 4096 * RefHex(t[i]) + 256 * RefHex(t[i + 1]) + 16 * RefHex(t[i + 2]) + RefHex(t[i + 3])

\* UTF-8 of a code point below 0x110000 (RFC 3629), a lone surrogate encoded
\* like any other code point of the Basic Multilingual Plane.
RefUtf8(cp) ==
    IF cp <= 127 THEN <<cp>>
    ELSE IF cp <= 2047 THEN <<192 + (cp \div 64), 128 + (cp % 64)>>
    ELSE IF cp <= 65535
    THEN <<224 + (cp \div 4096), 128 + ((cp \div 64) % 64), 128 + (cp % 64)>>
    ELSE <<240 + (cp \div 262144), 128 + ((cp \div 4096) % 64), 128 + ((cp \div 64) % 64),
           128 + (cp % 64)>>

RefSimple ==
    [b \in {34, 92, 47, 98, 102, 110, 114, 116} |->
        IF b = 98 THEN 8 ELSE IF b = 102 THEN 12 ELSE IF b = 110 THEN 10
        ELSE IF b = 114 THEN 13 ELSE IF b = 116 THEN 9 ELSE b]

\* The reference decoding of the literal that opens at t[1]: [ok, bytes, end],
\* end
\* being the index of the closing quote; read from t[i] on with acc decoded
\* so far.
RECURSIVE RefDecode(_, _, _)
RefDecode(t, i, acc) ==
    IF i > Len(t) THEN [ok |-> FALSE, bytes |-> acc, end |-> i]
    ELSE IF t[i] = 34 THEN [ok |-> TRUE, bytes |-> acc, end |-> i]
    ELSE IF t[i] < 32 THEN [ok |-> FALSE, bytes |-> acc, end |-> i]
    ELSE IF t[i] # 92 THEN RefDecode(t, i + 1, Append(acc, t[i]))
    ELSE IF i + 1 > Len(t) THEN [ok |-> FALSE, bytes |-> acc, end |-> i]
    ELSE IF t[i + 1] \in DOMAIN RefSimple
    THEN RefDecode(t, i + 2, Append(acc, RefSimple[t[i + 1]]))
    ELSE IF t[i + 1] # 117 \/ RefUnit(t, i + 2) < 0 THEN [ok |-> FALSE, bytes |-> acc, end |-> i]
    ELSE IF RefUnit(t, i + 2) \notin 55296..56319
    THEN RefDecode(t, i + 6, acc \o RefUtf8(RefUnit(t, i + 2)))
    ELSE IF \/ i + 7 > Len(t) \/ t[i + 6] # 92 \/ t[i + 7] # 117
            \/ RefUnit(t, i + 8) \notin 56320..57343
    THEN [ok |-> FALSE, bytes |-> acc, end |-> i]
    ELSE RefDecode(t, i + 12,
                   acc \o RefUtf8(65536 + (RefUnit(t, i + 2) - 55296) * 1024
                                    + (RefUnit(t, i + 8) - 56320)))

\* json_parse_opts has returned for a text that opens with a quote.
LiteralParsed == round = 1 /\ pc = "done" /\ len = Len(input) /\ len > 0 /\ input[1] = 34

\* What the first pass of parse_string measured on that text.
Measured == StringPass1([pos |-> 1, col |-> 2, n |-> 0, esc |-> FALSE, msg |-> ""])

\* C24: for every literal the first pass accepts, the second pass writes
\* exactly the bytes the first pass counted (so never more than the len + 1
\* allocated), the stored bytes and length are the reference decoding, and
\* the string region holds them and one NUL; every literal the reference
\* rejects (raw byte below 0x20, unknown escape, \u without four hex digits,
\* high surrogate without \u and a low surrogate, end of input before the
\* closing quote) fails with JSON_ERROR_STRING.  (A literal followed by more
\* text is measured the same way; the text is then rejected for what follows.)
StringMeasuredAsWritten ==
    LiteralParsed =>
        Let(RefDecode(input, 2, <<>>), LAMBDA r :
        IF r.ok /\ r.end < len
        THEN Measured.msg = "" /\ Measured.n = Len(r.bytes) /\ Measured.pos = r.end - 1
        ELSE IF r.ok
        THEN /\ result = "doc"
             /\ Measured.msg = ""
             /\ Measured.n = Len(r.bytes)
             /\ Measured.esc => StringPass2(1, Measured.pos) = r.bytes
             /\ val_get_type(Val(doc, doc.root)) \in {JSON_STRING_SHORT, JSON_STRING_LONG}
             /\ json_get_str_len(doc, doc.root) = Len(r.bytes)
             /\ StrBytes(doc, doc.root) = r.bytes
             /\ val_get_type(Val(doc, doc.root)) = JSON_STRING_LONG =>
                   /\ doc.strings = r.bytes \o <<0>>
                   /\ doc.strings_used = Measured.n + 1
        ELSE /\ result = "null"
             /\ err.code = JSON_ERROR_STRING)

\* A literal with a surrogate pair has been stored as the four bytes of its
\* code point.
SurrogatePairStored ==
    /\ LiteralParsed
    /\ result = "doc"
    /\ Measured.esc
    /\ Measured.n = 4
    /\ Len(input) = 14
    /\ StrBytes(doc, doc.root) = <<240, 159, 152, 128>>

\* A high surrogate followed by an escape that is no low surrogate has been
\* rejected.
LoneHighSurrogateRejected ==
    /\ LiteralParsed
    /\ result = "null"
    /\ err.code = JSON_ERROR_STRING
    /\ err.message = "Invalid low surrogate"

\* The LongString nodes of the document that hold a string pointer (a key
\* node holds its value's address there instead).
LongStringNodes ==
    {i \in 1..Len(doc.arena) :
        val_get_type(doc.arena[i]) = JSON_STRING_LONG /\ doc.arena[i].w2.k = "str"}

\* str_ptr of node i refers to payload-many bytes and a NUL inside the
\* document's current string region.
RefInRegion(i) ==
    Let(doc.arena[i], LAMBDA v :
    Let(WSmall(val_get_payload(v)), LAMBDA n :
        /\ v.w2.p.gen = doc.sgen
        /\ v.w2.p.idx >= 0
        /\ v.w2.p.idx + n + 1 <= doc.strings_used
        /\ doc.strings_used <= doc.strings_size
        /\ doc.strings[v.w2.p.idx + n + 1] = 0
        /\ \A k \in 1..n : doc.strings[v.w2.p.idx + k] # Indet))

\* C25: in every returned document, each LongString value node's payload
\* is the decoded length and its str_ptr refers to that many bytes and a NUL
\* inside the current string region [strings, strings + strings_used), also
\* when the region grew after earlier strings were stored (the elements of
\* the arrays of "abcdefgh" read back as those 8 bytes).
LongStringRefsValid ==
    Returned =>
        /\ \A i \in LongStringNodes : RefInRegion(i)
        /\ (len > 1 /\ input = StringsArray((len - 1) \div 11)) =>
              \A i \in LongStringNodes : StrBytes(doc, Ptr(doc.agen, i)) = LongElement

\* json_parse_opts has returned a document whose string region was moved by
\* strings_grow after strings were stored in it.
RegionMovedUnderStrings ==
    /\ Returned
    /\ doc.sgen = 2
    /\ doc.strings_size = 2 * STRING_INITIAL_SIZE
    /\ \E i \in LongStringNodes : doc.arena[i].w2.p.gen = 1

\* The state SpecStrings starts the long array from is the state the parser
\* reaches step by step (checked on the array of three elements).
MidStringsAsParsed ==
    \A k \in 1..2 :
        (input = StringsArray(3) /\ round = 1 /\ pc = "value" /\ pos = 11 * k + 1) =>
            LET m == MidStrings(3, k)
            IN /\ len = m.len /\ opts = m.opts /\ line = m.line /\ col = m.col
               /\ depth = m.depth /\ doc = m.doc /\ stack = m.stack /\ ret = m.ret
               /\ span = m.span /\ result = "none" /\ freed = 0 /\ members = {}
               /\ docs = <<>> /\ outs = <<>> /\ prior = <<>> /\ ~oomed

\* The parser is between the elements of the array of three strings.
MidStringsReached == input = StringsArray(3) /\ round = 1 /\ pc = "value" /\ pos = 23

\* The 1-based indices of the newlines among the first p bytes of the input.
NewlinesBefore(p) == {i \in 1..p : input[i] = Ch["\n"]}

\* The 0-based offset of the byte after the last newline before p, 0 if none.
LineStart(p) == IF NewlinesBefore(p) = {} THEN 0 ELSE CHOOSE i \in NewlinesBefore(p) : \A j \in NewlinesBefore(p) : j <= i

\* (p, l, c) is the position p with its line and column.
PositionOf(p, l, c) ==
    /\ p >= 0
    /\ p <= len
    /\ l = 1 + Cardinality(NewlinesBefore(p))
    /\ c = 1 + (p - LineStart(p))

\* C26: while json_parse_opts runs and when it returns, pos <= len, line is
\* 1 + the newlines in input[0, pos) and col is 1 + the distance of pos from
\* the byte after the last newline before it (tabs and carriage returns
\* counting 1); an error found during the descent or after it records the
\* position, line and column current at the failure; the empty input records
\* position 0, line 1, column 1.
PositionAccounting ==
    /\ (pc \in {"value", "ret"} \/ (pc = "done" /\ len > 0 /\ ~oomed)) =>
          PositionOf(pos, line, col)
    /\ (pc \in {"ret", "done"} /\ len > 0 /\ ~oomed /\ (ret = NULL \/ result = "null")) =>
          /\ err.code # JSON_OK
          /\ err.position = pos /\ err.line = line /\ err.column = col
    /\ (pc = "done" /\ round = 1 /\ len = 0) =>
          /\ result = "null"
          /\ err = set_error(JSON_ERROR_SYNTAX, 0, 1, 1, "Empty input")

\* A parse has failed inside a token on the third line of its input, after
\* a carriage return and a tab.
ErrorOnThirdLine ==
    /\ pc = "done"
    /\ result = "null"
    /\ err.line = 3
    /\ err.column > 1
    /\ err.position < len
    /\ err.code = JSON_ERROR_STRING
    /\ \E i \in 1..err.position : input[i] = Ch["\t"]

\* size is base doubled some number of times.
RECURSIVE Doubled(_, _)
Doubled(base, size) == size = base \/ (size > base /\ size % 2 = 0 /\ Doubled(base, size \div 2))

\* The least doubling of size, taken at least once, that is not below want.
LeastDoubling(size, want) ==
    CHOOSE m \in {size * 2, size * 4, size * 8, size * 16} :
        m >= want /\ (m = size * 2 \/ m \div 2 < want)

\* The capacity arena_create gives the node arena for initial_size.
InitialArena(initial) ==
    64 * (((IF initial = 0 THEN 64 * 1024 ELSE initial) + 63) \div 64)

AllocState ==
    pc = "arena" =>
        /\ doc.arena_used = 24 * doc.value_count
        /\ doc.arena_used <= doc.arena_size
        /\ doc.strings_used <= doc.strings_size
        /\ Doubled(InitialArena(got[1].initial), doc.arena_size)
        /\ Doubled(16 * 1024, doc.strings_size)
        /\ got[1].op = "val" /\ got[1].ok => got[1].zeroed

AllocStep ==
    pc = "arena" =>
        /\ SubSeq(doc'.arena, 1, Len(doc.arena)) = doc.arena
        /\ SubSeq(doc'.strings, 1, Len(doc.strings)) = doc.strings
        /\ doc'.arena_size # doc.arena_size =>
              /\ got'[1].op = "val"
              /\ doc.arena_used + 24 > doc.arena_size
              /\ doc'.arena_size = LeastDoubling(doc.arena_size, doc.arena_used + 24)
        /\ doc'.strings_size # doc.strings_size =>
              /\ got'[1].op = "str"
              /\ doc'.strings_used > doc.strings_size
              /\ doc'.strings_size = LeastDoubling(doc.strings_size, doc'.strings_used)
        /\ got'[1].ok =>
              IF got'[1].op = "val"
              THEN /\ doc'.value_count = doc.value_count + 1
                   /\ doc'.arena_used = doc.arena_used + 24
                   /\ doc'.strings_used = doc.strings_used
                   /\ doc'.arena_used > doc.arena_size => doc'.arena_size > doc.arena_size
              ELSE /\ doc'.value_count = doc.value_count
                   /\ doc'.arena_used = doc.arena_used
                   /\ doc'.strings_used > doc.strings_used
                   /\ doc'.strings_used > doc.strings_size =>
                         doc'.strings_size > doc.strings_size
        /\ ~got'[1].ok => doc' = doc

\* C27: after any sequence of arena_alloc_val / arena_alloc_string calls,
\* arena_used = 24 * value_count <= arena_size and strings_used <=
\* strings_size; each capacity is its initial capacity times a power of two
\* and grows, by doubling until the request fits, only when the request does
\* not fit; growth keeps the nodes and strings allocated before; a node
\* returned by arena_alloc_val is all-zero; a failed allocation leaves used,
\* size and value_count as they were.
ArenaAccounting == []AllocState /\ [][AllocStep]_vars

\* The string region has been moved and doubled twice in one call under a
\* string allocated before, next to a node of the arena.
StringRegionGrewTwice ==
    /\ pc = "arena"
    /\ doc.value_count = 1
    /\ doc.sgen = 2
    /\ doc.strings_size = 4 * STRING_INITIAL_SIZE
    /\ doc.strings_used = 33010
    /\ doc.strings[1] # doc.strings[10]

\* C28: json_equals(a, b) = json_equals(b, a) for all values a, b of a
\* parsed document, objects of equal size in which a key occurs more than
\* once included.
EqualsSymmetric == got # <<>> => got[1].ab = got[1].ba

\* json_equals has answered true for two objects one way and false the other
\* way.
EqualOneWayOnly ==
    /\ got # <<>>
    /\ pc = "done"
    /\ got[1].doc = doc.id
    /\ got[1].a # NULL /\ got[1].b # NULL
    /\ json_get_type(doc, got[1].a) = JSON_OBJECT
    /\ json_get_type(doc, got[1].b) = JSON_OBJECT
    /\ got[1].ab
    /\ ~got[1].ba

\* The string nodes of the document.
StringNodes ==
    {p \in Refs(doc) \ {NULL} :
        val_get_type(Val(doc, p)) \in {JSON_STRING_SHORT, JSON_STRING_LONG}}

\* The byte at offset json_get_str_len(p) from json_get_str(p).
ByteAfterString(p) ==
    MemRead(doc, json_get_str(doc, p), json_get_str_len(doc, p) + 1)[json_get_str_len(doc, p) + 1]

\* C29: for every string node of a returned document, ShortString of 0 to 7
\* bytes or LongString, root, array element, object value or key, with or
\* without a following sibling, the byte at offset json_get_str_len(v) from
\* json_get_str(v) is 0.
StringsNulTerminated == Returned => \A p \in StringNodes : ByteAfterString(p) = 0

\* A document has been returned in which a ShortString of 7 bytes has a
\* following sibling: the byte after its 7 bytes is the first byte of next.
SevenBytesBeforeSibling ==
    /\ Returned
    /\ \E p \in StringNodes :
         /\ val_get_type(Val(doc, p)) = JSON_STRING_SHORT
         /\ json_get_str_len(doc, p) = JSON_SHORT_STR_MAX
         /\ Next_(doc, p) # NULL
         /\ ByteAfterString(p) # 0

\* json_parse_opts has been called and has not returned.
Parsing == pc \in {"value", "ret"}

\* A step of a running parse: pos does not decrease and stays within the
\* input; a value that parses, a container that is entered, the comma or key
\* between two elements and the bracket that closes a container each move pos
\* forward; every other step is a failure, which no parse_value call follows
\* and which returns through one enclosing container at a time.
ParseStepAdvances ==
    Parsing =>
        /\ pos' >= pos
        /\ pos' <= len
        /\ (pc = "value" /\ (pc' = "value" \/ (pc' = "ret" /\ ret' # NULL))) => pos' > pos
        /\ (pc = "ret" /\ pc' = "value") => pos' > pos
        /\ (pc = "ret" /\ ret # NULL /\ pc' = "ret" /\ ret' # NULL) => pos' > pos
        /\ (pc = "ret" /\ ret = NULL) => pc' # "value"
        /\ (pc = "ret" /\ ret = NULL /\ pc' = "ret") =>
              (pos' = pos /\ ret' = NULL /\ Len(stack') < Len(stack))
        /\ (pc = "ret" /\ pc' = "ret" /\ ret' = NULL) => Len(stack') < Len(stack)

\* C30: json_parse_opts eventually returns; while it runs pos never
\* decreases, and every round of its loops moves pos forward by at least one
\* byte or ends the parse with a failure.
ParsingTerminates ==
    /\ Parsing ~> (pc = "done")
    /\ [][ParseStepAdvances]_vars

\* parse_array has stored through a pointer into the freed arena block and
\* the process has faulted: json_parse_opts does not return.
ParseFaulted == pc = "fault" /\ result = "none" /\ stack # <<>> /\ doc.agen = 2

====
